---- MODULE Spec2Model ----
(***************************************************************************)
(* CowExtractionFromVideos: the track writer manager (src/src/writer.py),  *)
(* the box smoother (src/src/smoother.py), the per-video extraction        *)
(* pipeline (src/src/processor.py) and the resume scan of main.py.         *)
(*                                                                         *)
(* File names are sequences of one-character strings, so that formatting   *)
(* (get_next_filename) and parsing (split on "_cow_") are computed.        *)
(* Durations are compared by cross-multiplication in milliseconds.         *)
(***************************************************************************)
EXTENDS Integers, Sequences, FiniteSets, TLC

(***************************************************************************)
(* Bounds of the model.                                                    *)
(***************************************************************************)
MaxTrackId == 2
MaxFrames == 3
MaxCounter == 3
MaxVideos == 2
\* source videos of one batch, frames of one video, detections of one frame
MaxBatch == 2
MaxVideoFrames == 2
MaxDetections == 2
\* update calls made on a smoother driven directly
MaxUpdates == 3
\* frames of a video handed to the scanner
MaxScanFrames == 16
\* width and height of a crop handed to the canvas standardization
MaxCrop == 13
\* bits of the significand of a floating-point number (a double has 53)
MantissaBits == 10
\* height and width of a frame handed to the mask compositor
MaskFrameSize == 4
\* resolution of the smoother's floating-point boxes: 1/FloatScale pixel
FloatScale == 1000

TrackIds == 1..MaxTrackId

(***************************************************************************)
(* Inputs.                                                                 *)
(***************************************************************************)
\* frame rates handed to write_frame (frames per second); 0 is the invalid rate
FpsInputs == {0, 4}
\* os.urandom(4).hex(): eight hexadecimal characters
RandomHex == { <<"0","0","0","0","0","0","a","b">>, <<"0","0","0","0","0","0","c","d">> }
\* base names of source videos
Stems == { <<"a">>, <<"b">> }
NoStem == <<>>
\* the input directory as glob lists it, by stem
StemLetters == <<"a", "b", "c", "d">>
video_files == [i \in 1..MaxBatch |-> <<StemLetters[i]>>]
\* what cap.get(cv2.CAP_PROP_FPS) reports, in 1/1000 frames per second
ReportedFps ==
    {[nan |-> TRUE, milli |-> 0]}
        \cup {[nan |-> FALSE, milli |-> v] : v \in {-1000, 0, 400, 24500, 25500, 29970, 240373}}
\* raw boxes (x1, y1, x2, y2) the detector reports; the first is the box of the
\* repository's tests, the last reaches the margin of the right edge exactly
Boxes == { <<0, 0, 50, 50>>, <<10, 10, 60, 60>>, <<20, 30, 70, 90>>, <<6, 6, 95, 94>> }
\* settings.SMOOTHING_ALPHA values a configuration may carry, in 1/FloatScale
AlphaCandidates == {0, FloatScale \div 5, FloatScale \div 2, FloatScale,
                    FloatScale + FloatScale \div 2}

\* what detect_and_track reports for one frame: the number of boxes of
\* results[0], and whether the boxes carry track ids (boxes.id is None when
\* nothing is tracked)
DetectorResults ==
    { [boxes |-> 0, id |-> FALSE], [boxes |-> 1, id |-> TRUE], [boxes |-> 2, id |-> TRUE] }

\* settings.OUTPUT_RESOLUTION values (width, height) of a configuration
Resolutions == { <<4, 4>>, <<7, 5>> }
\* settings.BACKGROUND_COLOR values of a configuration
Colors == { <<0, 0, 0>>, <<255, 255, 255>> }
\* settings.MASK_METHOD values of a configuration; the code knows the first two
MaskMethods == { "binary", "soft", "none", "hard" }
\* polygons res.masks.xy reports, as lists of (x, y) in 1/10 pixel: a
\* rectangle, a triangle and a single point
Segments ==
    { << <<5, 5>>, <<29, 5>>, <<29, 19>>, <<5, 19>> >>,
      << <<0, 0>>, <<38, 0>>, <<0, 38>> >>,
      << <<21, 12>> >> }

(***************************************************************************)
(* Program constants.                                                      *)
(***************************************************************************)
\* skip_frames of is_single_cow_video
skip_frames == 5
\* the rate write_frame falls back to
WriterFallbackFps == 30
\* settings.MIN_TRACK_DURATION_SEC in milliseconds, as the repository's test sets it
MIN_TRACK_DURATION_SEC == 500
VIDEO_EXT == <<".", "m", "p", "4">>
\* the rate process_video falls back to
DefaultFps == 30
BORDER_MARGIN == 5
CROP_PADDING == 30
\* settings.SMOOTHING_ALPHA = 0.2
SMOOTHING_ALPHA == FloatScale \div 5
\* width and height of the frames cap.read() returns
FRAME_W == 100
FRAME_H == 100

VARIABLES
    global_cow_counter,       \* CowVideoWriterManager.global_cow_counter
    current_video_writers,    \* the dict track_id -> TrackInfo, in insertion order
    files,                    \* the output directory: file name -> content
    source_stem,              \* stem of the source video the caller is working on
    videosStarted,            \* number of source videos the caller has started
    sinceReset,               \* finalizations since the last reset_track_mapping returned
    os_errors,                \* the paths on which the file system refuses a
                              \* delete or a rename with an OSError
    write_calls,              \* track_id -> write_frame calls made for it since
                              \* __init__ or the last flush
    assigned,                 \* the sinks get_next_filename was called for since
                              \* __init__, each with the path it was given, in order
    lastCall                  \* the last call made on the manager: its name, how it
                              \* ended, what its close_all did with each sink, and
                              \* the output directory as it found it

writerVars == <<global_cow_counter, current_video_writers, files, source_stem,
                videosStarted, sinceReset, os_errors, write_calls, assigned, lastCall>>

VARIABLES
    alpha,                    \* BoxSmoother.alpha, in 1/FloatScale
    tracks,                   \* BoxSmoother.tracks: track_id -> box in 1/FloatScale pixels
    lastUpdate,               \* the last BoxSmoother.update call: arguments, result,
                              \* stored box before and after
    updateCount,              \* update calls made by a caller driving the smoother
    updatedSinceReset         \* track ids passed to update since __init__ or the
                              \* last reset() call

smootherVars == <<alpha, tracks, lastUpdate, updateCount, updatedSinceReset>>

VARIABLES
    wiring,                   \* the writer manager the processor was built with:
                              \* "real" (CowVideoWriterManager) or "mock" (MagicMock)
    pc,                       \* where the batch run is
    skip_list,                \* skip_list of process_all_videos
    vidx,                     \* index in video_files of the video the loop is at
    cap_fps,                  \* the rate the open video reported
    video_fps,                \* fps of process_video after normalization
    framesRead,               \* frames pulled from the open video
    smoothedBefore,           \* track ids smoothed in earlier videos of the batch
    forwarded,                \* track_id -> write_frame calls made for it in this video
    lastWrite,                \* the last write_frame call process_video made
    lastFrame                 \* the last frame pulled: the track ids the detector
                              \* reported within the margin of a frame edge, those
                              \* it reported clear of it, and those a frame was
                              \* forwarded for

pipeVars == <<wiring, pc, skip_list, vidx, cap_fps, video_fps, framesRead,
              smoothedBefore, forwarded, lastWrite, lastFrame>>

VARIABLES
    scan_video,               \* the video handed to is_single_cow_video: whether it
                              \* opens, and what the detector reports for each frame
    frame_idx,                \* frame_idx of is_single_cow_video
    max_simultaneous_cows,    \* max_simultaneous_cows of is_single_cow_video
    frames_with_cows,         \* frames_with_cows of is_single_cow_video
    detector_calls,           \* indexes of the frames detect_and_track was called on
    scan_pc,                  \* where is_single_cow_video is
    scan_result               \* what is_single_cow_video returned

scanVars == <<scan_video, frame_idx, max_simultaneous_cows, frames_with_cows,
              detector_calls, scan_pc, scan_result>>

VARIABLES
    settings,                 \* the module config.settings: its globals by name
    run_pc                    \* where main() is: "none" when the components are
                              \* driven without it

configVars == <<settings, run_pc>>

VARIABLES
    cow_crop,                 \* the crop handed to the canvas standardization
    standardized              \* what the standardization made of it

canvasVars == <<cow_crop, standardized>>

VARIABLES
    mask_frame,               \* the frame handed to _apply_mask
    mask_segment,             \* the polygon handed to _apply_mask
    masked                    \* what _apply_mask returned

maskVars == <<mask_frame, mask_segment, masked>>

VARIABLES
    detections,               \* what the stub detector of the repository's tests
                              \* returned for the last frame: (track_id, box) pairs
    degenerate                \* the track ids for which the stub returned, since
                              \* process_video was called, a box that passed the
                              \* border filter with x1 >= x2 or y1 >= y2

vars == <<writerVars, smootherVars, pipeVars, scanVars, configVars, canvasVars, maskVars,
          detections, degenerate>>

(***************************************************************************)
(* Formatting of file names.                                               *)
(***************************************************************************)
Digits == <<"0", "1", "2", "3", "4", "5", "6", "7", "8", "9">>

RECURSIVE DecimalDigits(_)
DecimalDigits(n) ==
    IF n < 10 THEN <<Digits[n + 1]>>
    ELSE DecimalDigits(n \div 10) \o <<Digits[(n % 10) + 1]>>

RECURSIVE ZeroPad(_, _)
ZeroPad(s, width) ==
    IF Len(s) >= width THEN s ELSE ZeroPad(<<"0">> \o s, width)

\* f"{n:04d}"
Format04d(n) == ZeroPad(DecimalDigits(n), 4)

\* a name that does not depend on the counter
get_next_filename_fixed(counter) ==
    <<"c", "o", "w", "_">> \o Format04d(1) \o VIDEO_EXT

\* get_next_filename, for the counter value it has just incremented to
get_next_filename(counter) ==
    <<"c", "o", "w", "_">> \o Format04d(counter) \o VIDEO_EXT

\* a sink that writes straight to an artifact name
TempFilename_permanent(track_id, hex) ==
    <<"c", "o", "w", "_">> \o Format04d(track_id) \o VIDEO_EXT

\* f"temp_{track_id}_{os.urandom(4).hex()}{settings.VIDEO_EXT}"
TempFilename(track_id, hex) ==
    <<"t", "e", "m", "p", "_">> \o DecimalDigits(track_id) \o <<"_">> \o hex \o VIDEO_EXT

(***************************************************************************)
(* The output directory.                                                   *)
(***************************************************************************)
EmptyDir == [n \in {} |-> 0]

\* os.remove(path)
Remove(fs, path) == [n \in (DOMAIN fs) \ {path} |-> fs[n]]

\* a file written at path (created, or replaced)
Put(fs, path, content) ==
    [n \in (DOMAIN fs) \cup {path} |-> IF n = path THEN content ELSE fs[n]]

\* shutil.move(src, dst) of an existing file
Move(fs, src, dst) == Remove(Put(fs, dst, fs[src]), src)

\* an artifact a previous run of the manager left in the directory
LeftoverDir == Put(EmptyDir, get_next_filename(1), [stem |-> <<"o", "l", "d">>, trk |-> 1, frames |-> 9])

(***************************************************************************)
(* CowVideoWriterManager.                                                  *)
(***************************************************************************)
\* track_id in self.current_video_writers
HasWriter(writers, track_id) ==
    \E i \in 1..Len(writers) : writers[i].trk_id = track_id

\* self.current_video_writers[track_id]
WriterIndex(writers, track_id) ==
    CHOOSE i \in 1..Len(writers) : writers[i].trk_id = track_id

\* a sink that does not count the frame it was opened for
TrackInfo_uncounted(track_id, temp_path, fps) ==
    [trk_id |-> track_id, temp_path |-> temp_path, fps |-> fps, frame_count |-> 0]

\* TrackInfo(writer, temp_path, fps) after the first frame was written
TrackInfo(track_id, temp_path, fps) ==
    [trk_id |-> track_id, temp_path |-> temp_path, fps |-> fps, frame_count |-> 1]

\* write_frame(track_id, frame, fps) on the manager state m (its sinks and the
\* output directory); hex is the value os.urandom returns
write_frame(m, track_id, fps, hex) ==
    IF ~HasWriter(m.writers, track_id)
    THEN LET output_path == TempFilename(track_id, hex)
             used_fps == IF fps <= 0 THEN WriterFallbackFps ELSE fps
         IN [writers |-> Append(m.writers, TrackInfo(track_id, output_path, used_fps)),
             fs |-> Put(m.fs, output_path,
                        [stem |-> source_stem, trk |-> track_id, frames |-> 1])]
    ELSE LET i == WriterIndex(m.writers, track_id)
             t == m.writers[i]
         IN [writers |-> [m.writers EXCEPT ![i].frame_count = @ + 1],
             fs |-> [m.fs EXCEPT ![t.temp_path].frames = @ + 1]]

NoCalls == [t \in {} |-> 0]

\* one more write_frame call for track_id
CountCall(calls, track_id) ==
    [t \in (DOMAIN calls) \cup {track_id} |->
        IF t = track_id THEN (IF t \in DOMAIN calls THEN calls[t] ELSE 0) + 1
        ELSE calls[t]]

\* a threshold test that rejects a track lasting exactly the minimum
DurationSufficient_strict(t) ==
    IF t.fps > 0 THEN t.frame_count * 1000 > MIN_TRACK_DURATION_SEC * t.fps
    ELSE 0 > MIN_TRACK_DURATION_SEC

\* duration >= settings.MIN_TRACK_DURATION_SEC, with
\* duration = frame_count / fps if fps > 0 else 0
DurationSufficient(t) ==
    IF t.fps > 0 THEN t.frame_count * 1000 >= MIN_TRACK_DURATION_SEC * t.fps
    ELSE 0 >= MIN_TRACK_DURATION_SEC

\* os.remove(path): the file is gone, or OSError is raised and it stays
OsRemove(fs, path) ==
    IF path \notin DOMAIN fs \/ path \in os_errors THEN [fs |-> fs, raised |-> "OSError"]
    ELSE [fs |-> Remove(fs, path), raised |-> "none"]

\* shutil.move(src, dst): the file is at dst, or OSError is raised and
\* nothing has moved
OsMove(fs, src, dst) ==
    IF src \notin DOMAIN fs \/ src \in os_errors \/ (dst \in DOMAIN fs /\ dst \in os_errors)
    THEN [fs |-> fs, raised |-> "OSError"]
    ELSE [fs |-> Move(fs, src, dst), raised |-> "none"]

NotRaised(fs) == [fs |-> fs, raised |-> "none"]

\* a handler that lets the OSError go on
ExceptOSError_reraise(r) == r

\* try: ... except OSError: the error is swallowed
ExceptOSError(r) == [r EXCEPT !.raised = "none"]

\* the finalize branch of close_all for one sink, final_path already chosen
Finalize(fs, t, final_path) ==
    LET r == IF final_path \in DOMAIN fs THEN ExceptOSError(OsRemove(fs, final_path))
             ELSE NotRaised(fs)
    IN IF r.raised # "none" THEN r
       ELSE ExceptOSError(OsMove(r.fs, t.temp_path, final_path))

\* a discard branch that forgets to delete the temp file
Discard_keepTemp(fs, t) == NotRaised(fs)

\* the discard branch of close_all for one sink
Discard(fs, t) ==
    IF t.temp_path \in DOMAIN fs THEN ExceptOSError(OsRemove(fs, t.temp_path))
    ELSE NotRaised(fs)

\* what close_all did with one sink
LogEntry(t, kept, final_path, seq, nth) ==
    [trk_id |-> t.trk_id, frame_count |-> t.frame_count, fps |-> t.fps,
     temp_path |-> t.temp_path, kept |-> kept, final_path |-> final_path,
     seq |-> seq, nth |-> nth, stem |-> source_stem]

\* the paths get_next_filename returned in one close_all, each with the
\* track and the frames of the sink it was returned for
Assignments(kept) ==
    [i \in 1..Len(kept) |-> [final_path |-> kept[i].final_path,
                             trk_id |-> kept[i].trk_id,
                             frame_count |-> kept[i].frame_count]]

RECURSIVE CloseFrom(_, _)

\* a loop that takes a sequence number for a discarded sink too
CloseFrom_countAll(i, st) ==
    IF i > Len(current_video_writers) \/ st.raised # "none" THEN st
    ELSE LET t == current_video_writers[i]
         IN IF DurationSufficient(t)
            THEN LET c == st.counter + 1
                     final_path == get_next_filename(c)
                     r == Finalize(st.fs, t, final_path)
                 IN CloseFrom(i + 1,
                      [counter |-> c,
                       fs |-> r.fs,
                       nth |-> st.nth + 1,
                       log |-> Append(st.log,
                                 LogEntry(t, TRUE, final_path, c, st.nth + 1)),
                       raised |-> r.raised])
            ELSE LET r == Discard(st.fs, t)
                 IN CloseFrom(i + 1,
                      [counter |-> st.counter + 1,
                       fs |-> r.fs,
                       nth |-> st.nth,
                       log |-> Append(st.log, LogEntry(t, FALSE, <<>>, 0, 0)),
                       raised |-> r.raised])

\* the loop of close_all from sink i on; st carries the counter, the
\* directory, the number of finalizations, the record of what was done and
\* the exception that has left the loop, if any
CloseFrom(i, st) ==
    IF i > Len(current_video_writers) \/ st.raised # "none" THEN st
    ELSE LET t == current_video_writers[i]
         IN IF DurationSufficient(t)
            THEN LET c == st.counter + 1
                     final_path == get_next_filename(c)
                     r == Finalize(st.fs, t, final_path)
                 IN CloseFrom(i + 1,
                      [counter |-> c,
                       fs |-> r.fs,
                       nth |-> st.nth + 1,
                       log |-> Append(st.log,
                                 LogEntry(t, TRUE, final_path, c, st.nth + 1)),
                       raised |-> r.raised])
            ELSE LET r == Discard(st.fs, t)
                 IN CloseFrom(i + 1,
                      [counter |-> st.counter,
                       fs |-> r.fs,
                       nth |-> st.nth,
                       log |-> Append(st.log, LogEntry(t, FALSE, <<>>, 0, 0)),
                       raised |-> r.raised])

\* a flush that takes a sequence number when it finds no sink
close_all_reserve(op) ==
    LET r == CloseFrom(1, [counter |-> global_cow_counter, fs |-> files,
                           nth |-> sinceReset, log |-> <<>>, raised |-> "none"])
    IN /\ global_cow_counter' = IF current_video_writers = <<>> THEN r.counter + 1
                               ELSE r.counter
       /\ files' = r.fs
       /\ current_video_writers' = IF r.raised = "none" THEN <<>>
                                   ELSE current_video_writers
       /\ sinceReset' = IF op = "close_all" THEN r.nth ELSE 0
       /\ write_calls' = IF r.raised = "none" THEN NoCalls ELSE write_calls
       /\ assigned' = assigned \o Assignments(SelectSeq(r.log, LAMBDA e : e.kept))
       /\ lastCall' = [op |-> op, raised |-> r.raised, log |-> r.log, before |-> files,
                       sinks |-> current_video_writers]

\* close_all(), called as `op`; the sinks are cleared when the loop is left
\* without an exception
close_all(op) ==
    LET r == CloseFrom(1, [counter |-> global_cow_counter, fs |-> files,
                           nth |-> sinceReset, log |-> <<>>, raised |-> "none"])
    IN /\ global_cow_counter' = r.counter
       /\ files' = r.fs
       /\ current_video_writers' = IF r.raised = "none" THEN <<>>
                                   ELSE current_video_writers
       /\ sinceReset' = IF op = "close_all" THEN r.nth ELSE 0
       /\ write_calls' = IF r.raised = "none" THEN NoCalls ELSE write_calls
       /\ assigned' = assigned \o Assignments(SelectSeq(r.log, LAMBDA e : e.kept))
       /\ lastCall' = [op |-> op, raised |-> r.raised, log |-> r.log, before |-> files,
                       sinks |-> current_video_writers]

\* reset_track_mapping()
reset_track_mapping == close_all("reset_track_mapping")

(***************************************************************************)
(* The resume scan of main(): which source stems the output directory      *)
(* names.                                                                  *)
(***************************************************************************)
StartsWith(s, prefix) ==
    Len(s) >= Len(prefix) /\ SubSeq(s, 1, Len(prefix)) = prefix

EndsWith(s, suffix) ==
    Len(s) >= Len(suffix) /\ SubSeq(s, Len(s) - Len(suffix) + 1, Len(s)) = suffix

\* positions at which sep occurs in s
Occurrences(s, sep) ==
    {i \in 1..(Len(s) - Len(sep) + 1) : SubSeq(s, i, i + Len(sep) - 1) = sep}

Min(S) == CHOOSE x \in S : \A y \in S : x <= y

\* str.split(sep)
RECURSIVE Split(_, _)
Split(s, sep) ==
    IF Occurrences(s, sep) = {} THEN <<s>>
    ELSE LET i == Min(Occurrences(s, sep))
         IN <<SubSeq(s, 1, i - 1)>> \o Split(SubSeq(s, i + Len(sep), Len(s)), sep)

CowSeparator == <<"_", "c", "o", "w", "_">>

\* processed_stems as main() collects it from os.listdir(OUTPUT_VIDEOS_DIR)
ProcessedStems(existing_files) ==
    {Split(f, CowSeparator)[1] :
        f \in {g \in existing_files :
                  EndsWith(g, VIDEO_EXT) /\ Len(Split(g, CowSeparator)) > 1}}

(***************************************************************************)
(* BoxSmoother.  A float is a whole number of 1/FloatScale; a product is   *)
(* rounded to the nearest such number, as a floating-point product is      *)
(* rounded to the nearest float.  Coordinates are not negative.            *)
(***************************************************************************)
NoUpdate ==
    [track_id |-> 0, box |-> <<>>, ret |-> <<>>, first |-> FALSE,
     prev |-> <<>>, new |-> <<>>]

NoTracks == [t \in {} |-> <<>>]

\* validate_config: 0.0 <= SMOOTHING_ALPHA <= 1.0
AlphaAccepted(a) == 0 <= a /\ a <= FloatScale

\* np.array(box, dtype=float)
AsFloat(box) == [i \in 1..4 |-> box[i] * FloatScale]

\* n / d rounded to the nearest whole number
RoundDiv(n, d) == (2 * n + d) \div (2 * d)

\* the floating-point product a * x
Times(a, x) == RoundDiv(a * x, FloatScale)

\* self.alpha * current_box + (1 - self.alpha) * prev_box
Ema(a, current_box, prev_box) ==
    [i \in 1..4 |-> Times(a, current_box[i]) + Times(FloatScale - a, prev_box[i])]

\* smoothed_box.astype(int).tolist()
AsTypeInt(fbox) == [i \in 1..4 |-> fbox[i] \div FloatScale]

\* BoxSmoother.update(track_id, box) on the stored boxes tr: the boxes
\* stored afterwards and the list returned
SmootherUpdate(tr, a, track_id, box) ==
    LET current_box == AsFloat(box)
        smoothed_box == IF track_id \notin DOMAIN tr THEN current_box
                        ELSE Ema(a, current_box, tr[track_id])
    IN [tracks |-> [t \in (DOMAIN tr) \cup {track_id} |->
                        IF t = track_id THEN smoothed_box ELSE tr[t]],
        ret |-> AsTypeInt(smoothed_box)]

\* what one update call did; seen are the track ids passed to update since
\* __init__ or the last reset() call
UpdateRecord(tr, seen, track_id, box, u) ==
    [track_id |-> track_id, box |-> box, ret |-> u.ret,
     first |-> track_id \notin seen,
     prev |-> IF track_id \in DOMAIN tr THEN tr[track_id] ELSE <<>>,
     new |-> u.tracks[track_id]]

\* a reset that leaves the stored boxes in place
SmootherReset_keep(tr) == tr

\* BoxSmoother.reset()
SmootherReset(tr) == NoTracks

\* BoxSmoother(alpha) after __init__
InitSmoother(a) ==
    /\ alpha = a
    /\ tracks = NoTracks
    /\ lastUpdate = NoUpdate
    /\ updateCount = 0
    /\ updatedSinceReset = {}

(***************************************************************************)
(* config.settings as the repository ships it.                             *)
(***************************************************************************)
DefaultSettings ==
    [SMOOTHING_ALPHA |-> FloatScale \div 5,
     BACKGROUND_COLOR |-> <<0, 0, 0>>,
     MASK_METHOD |-> "soft",
     MASK_BLUR_KERNEL_SIZE |-> <<15, 15>>,
     MASK_DILATION_ITERATIONS |-> 2,
     OUTPUT_RESOLUTION |-> <<640, 640>>,
     MIN_TRACK_DURATION_SEC |-> 4000,
     CONFIDENCE_THRESHOLD |-> 750,
     CROP_PADDING |-> CROP_PADDING]

\* the shipped settings, and no main() running
SettingsAsShipped ==
    /\ settings = DefaultSettings
    /\ run_pc = "none"

\* validate_config() finds no error in the settings st (durations in
\* milliseconds, alpha in 1/FloatScale, confidence in 1/1000); the settings
\* that are pairs or triples here always are tuples of that length
ValidConfig(st) ==
    /\ AlphaAccepted(st.SMOOTHING_ALPHA)
    /\ 0 <= st.CONFIDENCE_THRESHOLD /\ st.CONFIDENCE_THRESHOLD <= 1000
    /\ ~(\E i \in 1..2 : st.OUTPUT_RESOLUTION[i] <= 0)
    /\ ~(st.MIN_TRACK_DURATION_SEC < 0)
    /\ st.MASK_METHOD \in {"binary", "soft"}
    /\ ~(\E i \in 1..2 : st.MASK_BLUR_KERNEL_SIZE[i] % 2 = 0
                           \/ st.MASK_BLUR_KERNEL_SIZE[i] <= 0)
    /\ ~(\E i \in 1..3 : ~(0 <= st.BACKGROUND_COLOR[i] /\ st.BACKGROUND_COLOR[i] <= 255))

(***************************************************************************)
(* CowExtractionProcessor.                                                 *)
(***************************************************************************)
NoWrite == [track_id |-> 0, fps |-> [value |-> 0, type |-> "none"], crop |-> <<>>]

NoForwarded == [t \in {} |-> 0]

NoFrame == [atBorder |-> {}, clear |-> {}, empty |-> {}, written |-> {}]

\* a rounding that drops the fraction
PyRound_truncate(milli) == milli \div 1000

\* round(fps) of Python 3 for a positive rate given in 1/1000: to the nearest
\* integer, a tie to the even one
PyRound(milli) ==
    LET q == milli \div 1000
        r == milli % 1000
    IN IF r < 500 THEN q
       ELSE IF r > 500 THEN q + 1
       ELSE IF q % 2 = 0 THEN q ELSE q + 1

\* fps <= 0 or np.isnan(fps)
InvalidFps(reported) == (~reported.nan /\ reported.milli <= 0) \/ reported.nan

\* the frame-rate handling of process_video
NormalizeFps(reported) ==
    IF InvalidFps(reported) THEN [value |-> DefaultFps, type |-> "float"]
    ELSE [value |-> PyRound(reported.milli), type |-> "int"]

\* a raw box within BORDER_MARGIN of a frame edge: x1 <= margin, y1 <= margin,
\* x2 >= width - margin or y2 >= height - margin
WithinMargin(box) ==
    \/ box[1] <= BORDER_MARGIN
    \/ box[2] <= BORDER_MARGIN
    \/ box[3] >= FRAME_W - BORDER_MARGIN
    \/ box[4] >= FRAME_H - BORDER_MARGIN

\* what the detector reported for one frame, by position relative to the margin
FrameRecord(dets, empty, written) ==
    [atBorder |-> {dets[i].track_id : i \in {j \in 1..Len(dets) : WithinMargin(dets[j].box)}},
     clear |-> {dets[i].track_id : i \in {j \in 1..Len(dets) : ~WithinMargin(dets[j].box)}},
     empty |-> empty,
     written |-> written]

\* a filter that lets a box pass that reaches the margin exactly
TouchesBorder_strict(box) ==
    \/ box[1] < BORDER_MARGIN
    \/ box[2] < BORDER_MARGIN
    \/ box[3] > FRAME_W - BORDER_MARGIN
    \/ box[4] > FRAME_H - BORDER_MARGIN

\* a filter that lets every box pass
TouchesBorder_never(box) == FALSE

\* the partial-cow filter on the raw box
TouchesBorder(box) ==
    \/ box[1] <= BORDER_MARGIN
    \/ box[2] <= BORDER_MARGIN
    \/ box[3] >= FRAME_W - BORDER_MARGIN
    \/ box[4] >= FRAME_H - BORDER_MARGIN

Max2(a, b) == IF a >= b THEN a ELSE b
Min2(a, b) == IF a <= b THEN a ELSE b

\* padding without the clamping to the frame
PadAndClamp_unclamped(box) ==
    LET padding == settings.CROP_PADDING
    IN << box[1] - padding, box[2] - padding, box[3] + padding, box[4] + padding >>

\* padding by getattr(settings, 'CROP_PADDING', 0), then clamping to the frame
PadAndClamp(box) ==
    LET padding == settings.CROP_PADDING
    IN << Max2(0, box[1] - padding), Max2(0, box[2] - padding),
          Min2(FRAME_W, box[3] + padding), Min2(FRAME_H, box[4] + padding) >>

\* len(range(n)[lo:hi]) for lo >= 0
SliceLen(lo, hi, n) ==
    LET stop == IF hi < 0 THEN Max2(hi + n, 0) ELSE Min2(hi, n)
        start == Min2(lo, n)
    IN Max2(stop - start, 0)

\* a test that finds no crop empty
CropEmpty_never(c) == FALSE

\* cow_crop.size == 0 for cow_crop = source_frame[y1:y2, x1:x2]
CropEmpty(c) ==
    SliceLen(c[2], c[4], FRAME_H) = 0 \/ SliceLen(c[1], c[3], FRAME_W) = 0

\* the detections one detect_and_track call can report: up to MaxDetections
\* boxes with distinct track ids
DetectionLists ==
    UNION { {dets \in [1..n -> [track_id : TrackIds, box : Boxes]] :
                \A i, j \in 1..n : i # j => dets[i].track_id # dets[j].track_id} :
            n \in 0..MaxDetections }

\* the body of `for i, (box, track_id) in enumerate(zip(boxes, ids))` from
\* detection i on; st carries the smoother, the manager and what was observed
RECURSIVE ProcessDetections(_, _, _, _)
ProcessDetections(dets, i, hexes, st) ==
    IF i > Len(dets) THEN st
    ELSE LET d == dets[i]
         IN IF TouchesBorder(d.box) THEN ProcessDetections(dets, i + 1, hexes, st)
            ELSE LET u == SmootherUpdate(st.tracks, alpha, d.track_id, d.box)
                     c == PadAndClamp(u.ret)
                     st1 == [st EXCEPT !.tracks = u.tracks,
                                       !.lastUpdate = UpdateRecord(st.tracks, st.updated,
                                                                   d.track_id, d.box, u),
                                       !.updated = @ \cup {d.track_id}]
                 IN IF CropEmpty(c)
                    THEN ProcessDetections(dets, i + 1, hexes,
                           [st1 EXCEPT !.empty = @ \cup {d.track_id}])
                    ELSE ProcessDetections(dets, i + 1, hexes,
                           [st1 EXCEPT
                              !.m = IF wiring = "real"
                                    THEN write_frame(@, d.track_id, video_fps.value, hexes[i])
                                    ELSE @,
                              !.calls = IF wiring = "real" THEN CountCall(@, d.track_id)
                                        ELSE @,
                              !.forwarded =
                                  [t \in (DOMAIN @) \cup {d.track_id} |->
                                      IF t = d.track_id
                                      THEN (IF t \in DOMAIN @ THEN @[t] ELSE 0) + 1
                                      ELSE @[t]],
                              !.lastWrite = [track_id |-> d.track_id, fps |-> video_fps,
                                             crop |-> c],
                              !.written = @ \cup {d.track_id}])

\* CowExtractionProcessor(detector, writer_manager) after __init__, before
\* main() has looked at the output directory
InitProcessor(w) ==
    /\ detections = <<>>
    /\ degenerate = {}
    /\ wiring = w
    /\ pc = "main"
    /\ skip_list = {}
    /\ vidx = 1
    /\ cap_fps = [nan |-> FALSE, milli |-> 0]
    /\ video_fps = [value |-> 0, type |-> "none"]
    /\ framesRead = 0
    /\ smoothedBefore = {}
    /\ forwarded = NoForwarded
    /\ lastWrite = NoWrite
    /\ lastFrame = NoFrame

(***************************************************************************)
(* Floating-point numbers: m * 2^e with a significand m of MantissaBits    *)
(* bits, every result rounded to the nearest such number, a tie to the     *)
(* even significand.                                                       *)
(***************************************************************************)
RECURSIVE Pow2(_)
Pow2(n) == IF n = 0 THEN 1 ELSE 2 * Pow2(n - 1)

\* the floating-point number nearest to (n / d) * 2^e, for n, d > 0
RECURSIVE RoundRatio(_, _, _)
RoundRatio(n, d, e) ==
    IF n < d * Pow2(MantissaBits - 1) THEN RoundRatio(2 * n, d, e - 1)
    ELSE IF n >= d * Pow2(MantissaBits) THEN RoundRatio(n, 2 * d, e + 1)
    ELSE LET q == n \div d
             r == n % d
             m == IF 2 * r < d THEN q
                  ELSE IF 2 * r > d THEN q + 1
                  ELSE IF q % 2 = 0 THEN q ELSE q + 1
         IN IF m = Pow2(MantissaBits) THEN [m |-> Pow2(MantissaBits - 1), e |-> e + 1]
            ELSE [m |-> m, e |-> e]

\* a / b for positive integers
FloatDiv(a, b) == RoundRatio(a, b, 0)

\* n * f for a positive integer n
FloatTimesInt(n, f) ==
    IF f.e >= 0 THEN RoundRatio(n * f.m * Pow2(f.e), 1, 0)
    ELSE RoundRatio(n * f.m, Pow2(-f.e), 0)

\* a < b for positive numbers
FloatLess(a, b) == a.e < b.e \/ (a.e = b.e /\ a.m < b.m)

\* min(a, b) of Python
FloatMin(a, b) == IF FloatLess(b, a) THEN b ELSE a

\* int(f) for a positive number
FloatToInt(f) == IF f.e >= 0 THEN f.m * Pow2(f.e) ELSE f.m \div Pow2(-f.e)

(***************************************************************************)
(* The canvas standardization of process_video.  An image is its height,   *)
(* its width and, for every position (y, x), where the pixel comes from:   *)
(* the zero-filled canvas, or a position of the crop, resized or not.  The *)
(* values cv2.resize interpolates are not modelled.                        *)
(***************************************************************************)
Positions(h, w) == (0..(h - 1)) \X (0..(w - 1))

\* a crop of the source frame
CropImage(h, w) ==
    [h |-> h, w |-> w, px |-> [q \in Positions(h, w) |-> [src |-> "crop", y |-> q[1], x |-> q[2]]]]

\* cv2.resize(img, (new_w, new_h)); it raises cv2.error for an empty size
Cv2Resize(img, new_w, new_h) ==
    IF new_w <= 0 \/ new_h <= 0 THEN [raised |-> "cv2.error", img |-> img]
    ELSE [raised |-> "none",
          img |-> [h |-> new_h, w |-> new_w,
                   px |-> [q \in Positions(new_h, new_w) |->
                              [src |-> "resized", y |-> q[1], x |-> q[2]]]]]

\* np.zeros((target_h, target_w, 3), dtype=np.uint8)
ZeroCanvas(target_h, target_w) ==
    [h |-> target_h, w |-> target_w,
     px |-> [q \in Positions(target_h, target_w) |-> [src |-> "zeros", y |-> 0, x |-> 0]]]

\* canvas[y_offset:y_offset+h, x_offset:x_offset+w] = img, for an image that
\* fits at that offset
Place(canvas, img, y_offset, x_offset) ==
    [canvas EXCEPT !.px =
        [q \in DOMAIN @ |->
            IF /\ y_offset <= q[1] /\ q[1] < y_offset + img.h
               /\ x_offset <= q[2] /\ q[2] < x_offset + img.w
            THEN img.px[<<q[1] - y_offset, q[2] - x_offset>>]
            ELSE @[q]]]

\* the BGR value of a pixel of the zero-filled canvas
ZeroPixel == <<0, 0, 0>>

\* lines 117 to 142 of process_video for a non-empty crop: the frame handed
\* to write_frame, or the exception raised on the way
Standardize(crop, resolution) ==
    LET target_w == resolution[1]
        target_h == resolution[2]
        canvas == ZeroCanvas(target_h, target_w)
        scaled == crop.w > target_w \/ crop.h > target_h
        scale == FloatMin(FloatDiv(target_w, crop.w), FloatDiv(target_h, crop.h))
        new_w == IF scaled THEN FloatToInt(FloatTimesInt(crop.w, scale)) ELSE crop.w
        new_h == IF scaled THEN FloatToInt(FloatTimesInt(crop.h, scale)) ELSE crop.h
        resized == IF scaled THEN Cv2Resize(crop, new_w, new_h)
                   ELSE [raised |-> "none", img |-> crop]
        x_offset == (target_w - new_w) \div 2
        y_offset == (target_h - new_h) \div 2
    IN IF resized.raised # "none"
       THEN [raised |-> resized.raised, frame |-> canvas, scaled |-> scaled,
             w |-> new_w, h |-> new_h, x_offset |-> 0, y_offset |-> 0]
       ELSE [raised |-> "none", frame |-> Place(canvas, resized.img, y_offset, x_offset),
             scaled |-> scaled, w |-> new_w, h |-> new_h,
             x_offset |-> x_offset, y_offset |-> y_offset]

NoImage == [h |-> 0, w |-> 0, px |-> <<>>]

NoCanvas ==
    [raised |-> "none", frame |-> NoImage, scaled |-> FALSE, w |-> 0, h |-> 0,
     x_offset |-> 0, y_offset |-> 0]

\* no crop has been handed over
CanvasIdle ==
    /\ cow_crop = NoImage
    /\ standardized = NoCanvas

(***************************************************************************)
(* The mask compositor: _apply_mask, _apply_binary_mask, _apply_soft_mask. *)
(* A pixel of the result is alpha * frame + (1 - alpha) * background; it   *)
(* is kept as the frame pixel, the background pixel and whether alpha is   *)
(* one, zero or in between.                                                *)
(***************************************************************************)
\* a frame of h x w pixels (BGR)
SourceFrame(h, w) ==
    [h |-> h, w |-> w, px |-> [q \in Positions(h, w) |-> <<10 * q[1] + q[2] + 1, 7, 200>>]]

\* segment.astype(np.int32), for coordinates that are not negative
AsInt32(segment) ==
    [i \in 1..Len(segment) |-> <<segment[i][1] \div 10, segment[i][2] \div 10>>]

\* on which side of the edge from a to b the point (x, y) lies
Side(a, b, x, y) == (b[1] - a[1]) * (y - a[2]) - (b[2] - a[2]) * (x - a[1])

\* cv2.fillPoly(mask, [pts], v) for a convex polygon: the positions of the
\* image inside the polygon or on its outline
FillPoly(pts, h, w) ==
    LET n == Len(pts)
        nxt(i) == IF i = n THEN 1 ELSE i + 1
    IN {q \in Positions(h, w) :
           /\ \E i \in 1..n : pts[i][1] <= q[2]
           /\ \E i \in 1..n : pts[i][1] >= q[2]
           /\ \E i \in 1..n : pts[i][2] <= q[1]
           /\ \E i \in 1..n : pts[i][2] >= q[1]
           /\ \/ \A i \in 1..n : Side(pts[i], pts[nxt(i)], q[2], q[1]) >= 0
              \/ \A i \in 1..n : Side(pts[i], pts[nxt(i)], q[2], q[1]) <= 0}

\* the positions of the image within dy rows and dx columns of q
Window(q, dy, dx, h, w) ==
    {r \in Positions(h, w) :
        /\ q[1] - dy <= r[1] /\ r[1] <= q[1] + dy
        /\ q[2] - dx <= r[2] /\ r[2] <= q[2] + dx}

\* cv2.dilate(mask, np.ones((3, 3)), iterations=n)
RECURSIVE Dilate(_, _, _, _)
Dilate(mask, n, h, w) ==
    IF n <= 0 THEN mask
    ELSE Dilate({q \in Positions(h, w) : Window(q, 1, 1, h, w) \cap mask # {}}, n - 1, h, w)

\* a hard cut that fills the background with zeros
BinaryBackground_zeros(bg_color) == <<0, 0, 0>>

\* np.full(frame.shape, bg_color, dtype=np.uint8), per pixel
BinaryBackground(bg_color) == bg_color

\* _apply_binary_mask(frame, segment, h, w)
ApplyBinaryMask(frame, segment, h, w) ==
    LET mask == FillPoly(AsInt32(segment), h, w)
        background == BinaryBackground(settings.BACKGROUND_COLOR)
    IN [raised |-> "none",
        px |-> [q \in Positions(h, w) |->
                   [alpha |-> IF q \in mask THEN "one" ELSE "zero",
                    frame |-> frame.px[q], background |-> background]]]

\* cv2.GaussianBlur accepts a kernel of positive odd width and height
KernelAccepted(ksize) ==
    /\ ksize[1] > 0 /\ ksize[1] % 2 = 1
    /\ ksize[2] > 0 /\ ksize[2] % 2 = 1

\* _apply_soft_mask(frame, segment, h, w): alpha is one where the whole blur
\* window lies in the dilated mask, zero where none of it does
ApplySoftMask(frame, segment, h, w) ==
    LET mask == Dilate(FillPoly(AsInt32(segment), h, w),
                       settings.MASK_DILATION_ITERATIONS, h, w)
        blur_size == settings.MASK_BLUR_KERNEL_SIZE
        win(q) == Window(q, blur_size[2] \div 2, blur_size[1] \div 2, h, w)
    IN IF ~KernelAccepted(blur_size) THEN [raised |-> "cv2.error", px |-> <<>>]
       ELSE [raised |-> "none",
             px |-> [q \in Positions(h, w) |->
                        [alpha |-> IF win(q) \subseteq mask THEN "one"
                                   ELSE IF win(q) \cap mask = {} THEN "zero"
                                   ELSE "between",
                         frame |-> frame.px[q],
                         background |-> settings.BACKGROUND_COLOR]]]

\* _apply_mask(frame, segment): the result, the policy applied and whether
\* the warning was printed
ApplyMask(frame, segment) ==
    LET method == settings.MASK_METHOD
    IN IF method = "binary"
       THEN [out |-> ApplyBinaryMask(frame, segment, frame.h, frame.w),
             policy |-> "binary", warned |-> FALSE]
       ELSE IF method = "soft"
       THEN [out |-> ApplySoftMask(frame, segment, frame.h, frame.w),
             policy |-> "soft", warned |-> FALSE]
       ELSE [out |-> ApplySoftMask(frame, segment, frame.h, frame.w),
             policy |-> "soft", warned |-> TRUE]

NoMasked == [out |-> [raised |-> "none", px |-> <<>>], policy |-> "none", warned |-> FALSE]

\* no frame has been handed to the compositor
MaskIdle ==
    /\ mask_frame = NoImage
    /\ mask_segment = <<>>
    /\ masked = NoMasked

(***************************************************************************)
(* VideoScanner.                                                           *)
(***************************************************************************)
\* cow_count for one frame's results
CowCount(res) == IF res.id THEN res.boxes ELSE 0

\* frame_idx % skip_frames == 0
Sampled(idx) == idx % skip_frames = 0

\* a scan that never leaves the loop early
EarlyExit_never(max) == FALSE

\* the early exit of the frame loop: max_simultaneous_cows > 1
EarlyExit(max) == max > 1

\* a verdict that also accepts a video without any detection
ScanVerdict_atMostOne(max) == max <= 1

\* return max_simultaneous_cows == 1
ScanVerdict(max) == max = 1

\* no scan has been started
ScannerIdle ==
    /\ scan_video = [opens |-> FALSE, frames |-> <<>>]
    /\ frame_idx = 0
    /\ max_simultaneous_cows = 0
    /\ frames_with_cows = 0
    /\ detector_calls = {}
    /\ scan_pc = "idle"
    /\ scan_result = FALSE

(***************************************************************************)
(* A caller driving the manager through its public methods, as             *)
(* tests/verify_logic_real.py does.                                        *)
(***************************************************************************)
OpenSinksBounded ==
    global_cow_counter + Len(current_video_writers) < MaxCounter

WriteFrame ==
    \E track_id \in TrackIds, fps \in FpsInputs, hex \in RandomHex :
        /\ HasWriter(current_video_writers, track_id) =>
               current_video_writers[WriterIndex(current_video_writers, track_id)].frame_count
                   < MaxFrames
        /\ ~HasWriter(current_video_writers, track_id) => OpenSinksBounded
        /\ LET m == write_frame([writers |-> current_video_writers, fs |-> files],
                                track_id, fps, hex)
           IN /\ current_video_writers' = m.writers
              /\ files' = m.fs
        /\ lastCall' = [op |-> "write_frame", raised |-> "none", log |-> <<>>,
                        before |-> EmptyDir, sinks |-> <<>>]
        /\ write_calls' = CountCall(write_calls, track_id)
        /\ UNCHANGED <<global_cow_counter, source_stem, videosStarted, sinceReset,
                       os_errors, assigned>>
        /\ UNCHANGED <<smootherVars, pipeVars>>
        /\ UNCHANGED <<scanVars, configVars, canvasVars, maskVars, detections, degenerate>>


CloseAll ==
    /\ close_all("close_all")
    /\ UNCHANGED <<source_stem, videosStarted, os_errors>>
    /\ UNCHANGED <<smootherVars, pipeVars>>
    /\ UNCHANGED <<scanVars, configVars, canvasVars, maskVars, detections, degenerate>>


\* the caller moves on to the source video `stem` and calls
\* reset_track_mapping() the way the method is declared
ResetTrackMapping ==
    \E stem \in Stems :
        /\ videosStarted < MaxVideos
        /\ stem # source_stem
        /\ reset_track_mapping
        /\ source_stem' = stem
        /\ videosStarted' = videosStarted + 1
        /\ UNCHANGED os_errors
        /\ UNCHANGED <<smootherVars, pipeVars>>
        /\ UNCHANGED <<scanVars, configVars, canvasVars, maskVars, detections, degenerate>>


\* the call as process_video makes it, reset_track_mapping(video_stem): the
\* method takes no argument besides self, so Python raises TypeError before
\* the body runs
ResetTrackMappingWithStem ==
    \E stem \in Stems :
        /\ lastCall' = [op |-> "reset_track_mapping(stem)", raised |-> "TypeError",
                        log |-> <<>>, before |-> EmptyDir, sinks |-> <<>>]
        /\ UNCHANGED <<global_cow_counter, current_video_writers, files, source_stem,
                       videosStarted, sinceReset, os_errors, write_calls, assigned>>
        /\ UNCHANGED <<smootherVars, pipeVars>>
        /\ UNCHANGED <<scanVars, configVars, canvasVars, maskVars, detections, degenerate>>


\* the manager after __init__
InitManager ==
    /\ global_cow_counter = 0
    /\ current_video_writers = <<>>
    /\ source_stem = NoStem
    /\ videosStarted = 0
    /\ sinceReset = 0
    /\ write_calls = NoCalls
    /\ assigned = <<>>
    /\ lastCall = [op |-> "__init__", raised |-> "none", log |-> <<>>, before |-> EmptyDir, sinks |-> <<>>]

InitWriter ==
    /\ InitManager
    /\ ScannerIdle
    /\ SettingsAsShipped
    /\ CanvasIdle
    /\ MaskIdle
    /\ files \in {EmptyDir, LeftoverDir}
    /\ os_errors = {}
    /\ InitSmoother(SMOOTHING_ALPHA)
    /\ InitProcessor("real")

NextWriter ==
    \/ WriteFrame
    \/ CloseAll
    \/ ResetTrackMapping
    \/ ResetTrackMappingWithStem

SpecWriter == InitWriter /\ [][NextWriter]_vars

\* a directory and the paths in it that the file system refuses to delete
\* or rename: the temp file of a track in an empty directory, an artifact
\* left by an earlier run
FaultyStarts ==
    { [files |-> EmptyDir, os_errors |-> {TempFilename(1, h)}] : h \in RandomHex }
    \cup { [files |-> LeftoverDir, os_errors |-> {get_next_filename(1)}] }

\* the manager on a file system that refuses some deletes and renames
InitFaults ==
    /\ InitManager
    /\ \E start \in FaultyStarts :
          /\ files = start.files
          /\ os_errors = start.os_errors
    /\ ScannerIdle
    /\ SettingsAsShipped
    /\ CanvasIdle
    /\ MaskIdle
    /\ InitSmoother(SMOOTHING_ALPHA)
    /\ InitProcessor("real")

\* its caller writes frames and flushes
NextFaults ==
    \/ WriteFrame
    \/ CloseAll

SpecFaults == InitFaults /\ [][NextFaults]_vars


(***************************************************************************)
(* A caller driving a BoxSmoother through its public methods.              *)
(***************************************************************************)
SmootherCallUpdate ==
    \E track_id \in TrackIds, box \in Boxes :
        /\ updateCount < MaxUpdates
        /\ LET u == SmootherUpdate(tracks, alpha, track_id, box)
           IN /\ tracks' = u.tracks
              /\ lastUpdate' = UpdateRecord(tracks, updatedSinceReset, track_id, box, u)
        /\ updateCount' = updateCount + 1
        /\ updatedSinceReset' = updatedSinceReset \cup {track_id}
        /\ UNCHANGED <<alpha, writerVars, pipeVars>>
        /\ UNCHANGED <<scanVars, configVars, canvasVars, maskVars, detections, degenerate>>


SmootherCallReset ==
    /\ tracks # NoTracks
    /\ tracks' = SmootherReset(tracks)
    /\ updatedSinceReset' = {}
    /\ UNCHANGED <<alpha, lastUpdate, updateCount, writerVars, pipeVars>>
    /\ UNCHANGED <<scanVars, configVars, canvasVars, maskVars, detections, degenerate>>


\* a smoother built with any smoothing factor validate_config accepts
InitSmootherCaller ==
    /\ \E a \in {x \in AlphaCandidates : AlphaAccepted(x)} : InitSmoother(a)
    /\ InitManager
    /\ ScannerIdle
    /\ SettingsAsShipped
    /\ CanvasIdle
    /\ MaskIdle
    /\ files = EmptyDir
    /\ os_errors = {}
    /\ InitProcessor("real")

NextSmoother ==
    \/ SmootherCallUpdate
    \/ SmootherCallReset

SpecSmoother == InitSmootherCaller /\ [][NextSmoother]_vars

(***************************************************************************)
(* The batch run: main() from its resume scan on, process_all_videos and   *)
(* process_video.                                                          *)
(***************************************************************************)
\* a file in the output directory named the way the resume scan expects
ForeignDir ==
    Put(EmptyDir, video_files[1] \o CowSeparator \o Format04d(1) \o VIDEO_EXT,
        [stem |-> video_files[1], trk |-> 1, frames |-> 9])

\* main(): processed_stems from the output directory, processed_paths from
\* the input directory
ResumeScan ==
    /\ pc = "main"
    /\ skip_list' = {video_files[i] : i \in {j \in 1..Len(video_files) :
                         video_files[j] \in ProcessedStems(DOMAIN files)}}
    /\ pc' = "batch"
    /\ UNCHANGED <<writerVars, smootherVars, wiring, vidx, cap_fps, video_fps,
                   framesRead, smoothedBefore, forwarded, lastWrite, lastFrame>>
    /\ UNCHANGED <<scanVars, configVars, canvasVars, maskVars, detections, degenerate>>


\* process_all_videos: video_file in skip_list
SkipVideo ==
    /\ pc = "batch"
    /\ vidx <= Len(video_files)
    /\ video_files[vidx] \in skip_list
    /\ vidx' = vidx + 1
    /\ UNCHANGED <<writerVars, smootherVars, wiring, pc, skip_list, cap_fps, video_fps,
                   framesRead, smoothedBefore, forwarded, lastWrite, lastFrame>>
    /\ UNCHANGED <<scanVars, configVars, canvasVars, maskVars, detections, degenerate>>


\* process_video: cap.isOpened() is false
VideoFailsToOpen ==
    /\ pc = "batch"
    /\ vidx <= Len(video_files)
    /\ video_files[vidx] \notin skip_list
    /\ vidx' = vidx + 1
    /\ UNCHANGED <<writerVars, smootherVars, wiring, pc, skip_list, cap_fps, video_fps,
                   framesRead, smoothedBefore, forwarded, lastWrite, lastFrame>>
    /\ UNCHANGED <<scanVars, configVars, canvasVars, maskVars, detections, degenerate>>


\* process_video up to its frame loop: the rate is normalized, then
\* reset_track_mapping(video_stem) is called; CowVideoWriterManager declares
\* the method without that parameter, so the call raises TypeError, which
\* main() turns into exit status 1; a MagicMock accepts the call
StartVideoAt(reported) ==
        /\ pc = "batch"
        /\ vidx <= Len(video_files)
        /\ video_files[vidx] \notin skip_list
        /\ cap_fps' = reported
        /\ video_fps' = NormalizeFps(reported)
        /\ source_stem' = video_files[vidx]
        /\ framesRead' = 0
        /\ forwarded' = NoForwarded
        /\ lastWrite' = NoWrite
        /\ lastFrame' = NoFrame
        /\ IF wiring = "real"
           THEN /\ lastCall' = [op |-> "reset_track_mapping(stem)", raised |-> "TypeError",
                                log |-> <<>>, before |-> EmptyDir, sinks |-> <<>>]
                /\ pc' = "exit1"
                /\ UNCHANGED <<tracks, lastUpdate, updatedSinceReset>>
           ELSE /\ tracks' = SmootherReset(tracks)
                /\ updatedSinceReset' = {}
                /\ lastUpdate' = NoUpdate
                /\ pc' = "frames"
                /\ UNCHANGED lastCall
        /\ UNCHANGED <<global_cow_counter, current_video_writers, files, videosStarted,
                       sinceReset, os_errors, write_calls, assigned, alpha, updateCount,
                       wiring, skip_list, vidx, smoothedBefore>>
        /\ UNCHANGED <<scanVars, configVars, canvasVars, maskVars>>

\* the same for any rate the video may report
StartVideo ==
    \E reported \in ReportedFps :
        /\ StartVideoAt(reported)
        /\ UNCHANGED <<detections, degenerate>>


HexChoices ==
    IF wiring = "real" THEN [1..MaxDetections -> RandomHex]
    ELSE {[i \in 1..MaxDetections |-> CHOOSE h \in RandomHex : TRUE]}

\* one pass of the frame loop with cap.read() returning a frame for which
\* the detector reports dets
ReadFrameOf(dets, hexes) ==
        /\ pc = "frames"
        /\ framesRead < MaxVideoFrames
        /\ LET st == ProcessDetections(dets, 1, hexes,
                        [tracks |-> tracks, lastUpdate |-> lastUpdate,
                         updated |-> updatedSinceReset,
                         m |-> [writers |-> current_video_writers, fs |-> files],
                         calls |-> write_calls,
                         forwarded |-> forwarded, lastWrite |-> lastWrite,
                         empty |-> {}, written |-> {}])
           IN /\ tracks' = st.tracks
              /\ lastUpdate' = st.lastUpdate
              /\ updatedSinceReset' = st.updated
              /\ current_video_writers' = st.m.writers
              /\ files' = st.m.fs
              /\ write_calls' = st.calls
              /\ forwarded' = st.forwarded
              /\ lastWrite' = st.lastWrite
              /\ lastFrame' = FrameRecord(dets, st.empty, st.written)
        /\ framesRead' = framesRead + 1
        /\ UNCHANGED <<global_cow_counter, source_stem, videosStarted, sinceReset, lastCall,
                       os_errors, assigned, alpha, updateCount, wiring, pc, skip_list, vidx,
                       cap_fps, video_fps, smoothedBefore>>
        /\ UNCHANGED <<scanVars, configVars, canvasVars, maskVars>>

\* the same for anything the detector may report
ReadFrame ==
    \E dets \in DetectionLists, hexes \in HexChoices :
        /\ ReadFrameOf(dets, hexes)
        /\ UNCHANGED <<detections, degenerate>>


\* cap.read() reports the end of the video: the loop is left and
\* writer_manager.close_all() is called
EndOfVideo ==
    /\ pc = "frames"
    /\ IF wiring = "real" THEN close_all("close_all")
       ELSE UNCHANGED <<global_cow_counter, current_video_writers, files, sinceReset,
                        write_calls, assigned, lastCall>>
    /\ smoothedBefore' = smoothedBefore \cup updatedSinceReset
    /\ vidx' = vidx + 1
    /\ pc' = "batch"
    /\ UNCHANGED <<source_stem, videosStarted, os_errors, smootherVars, wiring, skip_list, cap_fps,
                   video_fps, framesRead, forwarded, lastWrite, lastFrame>>
    /\ UNCHANGED <<scanVars, configVars, canvasVars, maskVars, detections, degenerate>>


\* process_all_videos has gone through video_files
BatchDone ==
    /\ pc = "batch"
    /\ vidx > Len(video_files)
    /\ pc' = "done"
    /\ UNCHANGED <<writerVars, smootherVars, wiring, skip_list, vidx, cap_fps, video_fps,
                   framesRead, smoothedBefore, forwarded, lastWrite, lastFrame>>
    /\ UNCHANGED <<scanVars, configVars, canvasVars, maskVars, detections, degenerate>>


InitPipeline ==
    /\ InitManager
    /\ ScannerIdle
    /\ SettingsAsShipped
    /\ CanvasIdle
    /\ MaskIdle
    /\ files \in {EmptyDir, LeftoverDir, ForeignDir}
    /\ os_errors = {}
    /\ InitSmoother(SMOOTHING_ALPHA)
    /\ \E w \in {"real", "mock"} : InitProcessor(w)

NextPipeline ==
    \/ ResumeScan
    \/ SkipVideo
    \/ VideoFailsToOpen
    \/ StartVideo
    \/ ReadFrame
    \/ EndOfVideo
    \/ BatchDone

SpecPipeline == InitPipeline /\ [][NextPipeline]_vars

(***************************************************************************)
(* process_video as the repository's tests drive it: a MagicMock for the   *)
(* writer manager, a patched cv2.VideoCapture, a stub for the detector.    *)
(***************************************************************************)
\* the box of the tests' stub
TestBox == <<0, 0, 50, 50>>

\* boxes a stub returns: the box of the tests, a box clear of the border,
\* a box whose right edge lies more than twice CROP_PADDING left of its
\* left edge, so that the padded crop is empty, a box one pixel wide and a
\* box of no width (what astype(int) makes of a box less than a pixel wide)
StubBoxes == { TestBox, <<10, 10, 60, 60>>, <<90, 10, 10, 60>>,
               <<10, 10, 11, 60>>, <<10, 10, 10, 60>> }

\* x1 < x2 and y1 < y2
NonDegenerate(box) == box[1] < box[3] /\ box[2] < box[4]

\* the track ids of dets whose box passes the border filter without being
\* non-degenerate
DegenerateIn(dets) ==
    {dets[i].track_id : i \in {j \in 1..Len(dets) :
                                  ~WithinMargin(dets[j].box) /\ ~NonDegenerate(dets[j].box)}}

\* what a stub returns for one frame: up to MaxDetections boxes with distinct
\* track ids
StubLists ==
    UNION { {dets \in [1..n -> [track_id : TrackIds, box : StubBoxes]] :
                \A i, j \in 1..n : i # j => dets[i].track_id # dets[j].track_id} :
            n \in 0..MaxDetections }

\* what the patched capture reports as its rate: 240.373 and 30.0
TestFps == { [nan |-> FALSE, milli |-> 240373], [nan |-> FALSE, milli |-> 30000] }

\* processor.process_video(path) up to the frame loop
StubStartVideo ==
    \E reported \in TestFps :
        /\ StartVideoAt(reported)
        /\ detections' = <<>>
        /\ degenerate' = {}

\* mock_cap.read() returns a frame, the stub its detections
StubReadFrame ==
    \E dets \in StubLists, hexes \in HexChoices :
        /\ ReadFrameOf(dets, hexes)
        /\ detections' = dets
        /\ degenerate' = degenerate \cup DegenerateIn(dets)

\* the processor of the tests, about to be handed its first video
InitHarness ==
    /\ InitManager
    /\ ScannerIdle
    /\ SettingsAsShipped
    /\ CanvasIdle
    /\ MaskIdle
    /\ files = EmptyDir
    /\ os_errors = {}
    /\ InitSmoother(SMOOTHING_ALPHA)
    /\ detections = <<>>
    /\ degenerate = {}
    /\ wiring = "mock"
    /\ pc = "batch"
    /\ skip_list = {}
    /\ vidx = 1
    /\ cap_fps = [nan |-> FALSE, milli |-> 0]
    /\ video_fps = [value |-> 0, type |-> "none"]
    /\ framesRead = 0
    /\ smoothedBefore = {}
    /\ forwarded = NoForwarded
    /\ lastWrite = NoWrite
    /\ lastFrame = NoFrame

NextHarness ==
    \/ StubStartVideo
    \/ StubReadFrame
    \/ EndOfVideo

SpecHarness == InitHarness /\ [][NextHarness]_vars

\* CROP_PADDING as shipped, and 0: what getattr(settings, 'CROP_PADDING', 0)
\* yields for a configuration without the name
PaddingChoices == { CROP_PADDING, 0 }

\* the same processor under either padding
InitCrop ==
    /\ InitManager
    /\ ScannerIdle
    /\ \E p \in PaddingChoices : settings = [DefaultSettings EXCEPT !.CROP_PADDING = p]
    /\ run_pc = "none"
    /\ CanvasIdle
    /\ MaskIdle
    /\ files = EmptyDir
    /\ os_errors = {}
    /\ InitSmoother(SMOOTHING_ALPHA)
    /\ detections = <<>>
    /\ degenerate = {}
    /\ wiring = "mock"
    /\ pc = "batch"
    /\ skip_list = {}
    /\ vidx = 1
    /\ cap_fps = [nan |-> FALSE, milli |-> 0]
    /\ video_fps = [value |-> 0, type |-> "none"]
    /\ framesRead = 0
    /\ smoothedBefore = {}
    /\ forwarded = NoForwarded
    /\ lastWrite = NoWrite
    /\ lastFrame = NoFrame

SpecCrop == InitCrop /\ [][NextHarness]_vars

(***************************************************************************)
(* One call of VideoScanner.is_single_cow_video.                           *)
(***************************************************************************)
\* number of sampled frames of a video of n frames
NumSamples(n) == (n + skip_frames - 1) \div skip_frames

\* the videos handed to the scanner: every sampled frame has its own detector
\* result, the frames between them share one
ScanVideos ==
    UNION { { [opens |-> o,
               frames |-> [i \in 1..n |->
                              IF Sampled(i - 1) THEN s[((i - 1) \div skip_frames) + 1]
                              ELSE r]] :
                o \in BOOLEAN, r \in {x \in DetectorResults : x.boxes # 1},
                s \in [1..NumSamples(n) -> DetectorResults] } :
            n \in 0..MaxScanFrames }

\* cap.isOpened() is false: the scanner returns False
ScanOpenFails ==
    /\ scan_pc = "opening"
    /\ ~scan_video.opens
    /\ scan_result' = FALSE
    /\ scan_pc' = "returned"
    /\ UNCHANGED <<scan_video, frame_idx, max_simultaneous_cows, frames_with_cows,
                   detector_calls>>
    /\ UNCHANGED <<writerVars, smootherVars, pipeVars, configVars, canvasVars, maskVars, detections, degenerate>>

\* one pass of the frame loop with cap.read() returning a frame; on the
\* early exit the capture is released and the verdict returned
ScanFrame ==
    /\ scan_pc \in {"opening", "loop"}
    /\ scan_video.opens
    /\ frame_idx < Len(scan_video.frames)
    /\ IF Sampled(frame_idx)
       THEN LET cow_count == CowCount(scan_video.frames[frame_idx + 1])
                max == IF cow_count > max_simultaneous_cows THEN cow_count
                       ELSE max_simultaneous_cows
            IN /\ detector_calls' = detector_calls \cup {frame_idx}
               /\ max_simultaneous_cows' = max
               /\ frames_with_cows' = IF cow_count > 0 THEN frames_with_cows + 1
                                      ELSE frames_with_cows
               /\ IF EarlyExit(max)
                  THEN /\ scan_pc' = "returned"
                       /\ scan_result' = ScanVerdict(max)
                       /\ UNCHANGED frame_idx
                  ELSE /\ scan_pc' = "loop"
                       /\ frame_idx' = frame_idx + 1
                       /\ UNCHANGED scan_result
       ELSE /\ scan_pc' = "loop"
            /\ frame_idx' = frame_idx + 1
            /\ UNCHANGED <<detector_calls, max_simultaneous_cows, frames_with_cows,
                           scan_result>>
    /\ UNCHANGED scan_video
    /\ UNCHANGED <<writerVars, smootherVars, pipeVars, configVars, canvasVars, maskVars, detections, degenerate>>

\* cap.read() reports the end of the video: the capture is released and the
\* verdict returned
ScanEndOfVideo ==
    /\ scan_pc \in {"opening", "loop"}
    /\ scan_video.opens
    /\ frame_idx = Len(scan_video.frames)
    /\ scan_result' = ScanVerdict(max_simultaneous_cows)
    /\ scan_pc' = "returned"
    /\ UNCHANGED <<scan_video, frame_idx, max_simultaneous_cows, frames_with_cows,
                   detector_calls>>
    /\ UNCHANGED <<writerVars, smootherVars, pipeVars, configVars, canvasVars, maskVars, detections, degenerate>>

\* is_single_cow_video(video_path) has been called
InitScanner ==
    /\ scan_video \in ScanVideos
    /\ frame_idx = 0
    /\ max_simultaneous_cows = 0
    /\ frames_with_cows = 0
    /\ detector_calls = {}
    /\ scan_pc = "opening"
    /\ scan_result = FALSE
    /\ InitManager
    /\ files = EmptyDir
    /\ os_errors = {}
    /\ InitSmoother(SMOOTHING_ALPHA)
    /\ InitProcessor("real")
    /\ SettingsAsShipped
    /\ CanvasIdle
    /\ MaskIdle

NextScanner ==
    \/ ScanOpenFails
    \/ ScanFrame
    \/ ScanEndOfVideo

SpecScanner == InitScanner /\ [][NextScanner]_vars

(***************************************************************************)
(* The canvas standardization of one crop under one configuration.         *)
(***************************************************************************)
\* a non-empty crop reaches line 117 of process_video; the frame built from
\* it is handed to write_frame unless an exception was raised
StandardizeCrop ==
    /\ standardized = NoCanvas
    /\ standardized' = Standardize(cow_crop, settings.OUTPUT_RESOLUTION)
    /\ UNCHANGED <<cow_crop, settings, run_pc>>
    /\ UNCHANGED <<writerVars, smootherVars, pipeVars, scanVars, maskVars, detections, degenerate>>

InitCanvas ==
    /\ \E h \in 1..MaxCrop, w \in 1..MaxCrop : cow_crop = CropImage(h, w)
    /\ standardized = NoCanvas
    /\ \E r \in Resolutions, c \in Colors :
           settings = [DefaultSettings EXCEPT !.OUTPUT_RESOLUTION = r,
                                              !.BACKGROUND_COLOR = c]
    /\ run_pc = "none"
    /\ ScannerIdle
    /\ MaskIdle
    /\ InitManager
    /\ files = EmptyDir
    /\ os_errors = {}
    /\ InitSmoother(SMOOTHING_ALPHA)
    /\ InitProcessor("real")

NextCanvas == StandardizeCrop

SpecCanvas == InitCanvas /\ [][NextCanvas]_vars

(***************************************************************************)
(* The mask compositor called on one frame under one configuration.        *)
(***************************************************************************)
\* source_frame = self._apply_mask(frame, seg)
MaskFrame ==
    /\ run_pc \in {"none", "processing"}
    /\ masked = NoMasked
    /\ masked' = ApplyMask(mask_frame, mask_segment)
    /\ UNCHANGED <<mask_frame, mask_segment, settings, run_pc>>
    /\ UNCHANGED <<writerVars, smootherVars, pipeVars, scanVars, canvasVars, detections, degenerate>>

\* the kernel sizes and dilation counts of the configurations the
\* compositor is called under
MaskSettings ==
    { [DefaultSettings EXCEPT !.MASK_METHOD = m, !.BACKGROUND_COLOR = c,
                              !.MASK_BLUR_KERNEL_SIZE = k,
                              !.MASK_DILATION_ITERATIONS = n] :
        m \in MaskMethods, c \in Colors, k \in { <<3, 3>>, <<1, 3>>, <<4, 3>> },
        n \in 0..1 }

InitMask ==
    /\ mask_frame = SourceFrame(MaskFrameSize, MaskFrameSize)
    /\ mask_segment \in Segments
    /\ masked = NoMasked
    /\ settings \in MaskSettings
    /\ run_pc = "none"
    /\ ScannerIdle
    /\ CanvasIdle
    /\ InitManager
    /\ files = EmptyDir
    /\ os_errors = {}
    /\ InitSmoother(SMOOTHING_ALPHA)
    /\ InitProcessor("real")

NextMask == MaskFrame

SpecMask == InitMask /\ [][NextMask]_vars

(***************************************************************************)
(* main() from the validation of the configuration to the first frame of   *)
(* the first video.                                                        *)
(***************************************************************************)
\* the configurations main() is started with
ConfigCandidates ==
    { [DefaultSettings EXCEPT !.SMOOTHING_ALPHA = a, !.MIN_TRACK_DURATION_SEC = t,
                              !.OUTPUT_RESOLUTION = r, !.MASK_BLUR_KERNEL_SIZE = k,
                              !.MASK_METHOD = m, !.BACKGROUND_COLOR = c] :
        a \in AlphaCandidates, t \in {-1000, 0, 4000},
        r \in { <<640, 640>>, <<0, 640>>, <<64, -1>> },
        k \in { <<15, 15>>, <<4, 15>>, <<15, -3>> },
        m \in MaskMethods, c \in Colors }

\* settings.validate_config() as main() calls it: a ValueError ends the run
\* with exit status 1
ValidateConfig ==
    /\ run_pc = "start"
    /\ run_pc' = IF ValidConfig(settings) THEN "config_ok" ELSE "exit1"
    /\ UNCHANGED settings
    /\ UNCHANGED <<writerVars, smootherVars, pipeVars, scanVars, canvasVars, maskVars, detections, degenerate>>

\* main() builds the detector, the writer manager and the processor, whose
\* BoxSmoother() takes settings.SMOOTHING_ALPHA, and process_all_videos
\* opens the first video
StartProcessing ==
    /\ run_pc = "config_ok"
    /\ alpha' = settings.SMOOTHING_ALPHA
    /\ run_pc' = "processing"
    /\ UNCHANGED <<settings, tracks, lastUpdate, updateCount, updatedSinceReset>>
    /\ UNCHANGED <<writerVars, pipeVars, scanVars, canvasVars, maskVars, detections, degenerate>>

InitStartup ==
    /\ settings \in ConfigCandidates
    /\ run_pc = "start"
    /\ mask_frame = SourceFrame(MaskFrameSize, MaskFrameSize)
    /\ mask_segment \in Segments
    /\ masked = NoMasked
    /\ ScannerIdle
    /\ CanvasIdle
    /\ InitManager
    /\ files = EmptyDir
    /\ os_errors = {}
    /\ InitSmoother(SMOOTHING_ALPHA)
    /\ InitProcessor("real")

NextStartup ==
    \/ ValidateConfig
    \/ StartProcessing
    \/ MaskFrame

SpecStartup == InitStartup /\ [][NextStartup]_vars

(***************************************************************************)
(* Properties of the writer manager.                                       *)
(***************************************************************************)
AfterFlush ==
    lastCall.op \in {"close_all", "reset_track_mapping"} /\ lastCall.raised = "none"

FlushedSinks == {lastCall.log[i] : i \in 1..Len(lastCall.log)}

\* frame_count / fps < MIN_TRACK_DURATION_SEC for the rate the sink was opened with
BelowMinimum(e) == e.frame_count * 1000 < MIN_TRACK_DURATION_SEC * e.fps

IsTempName(n) == StartsWith(n, <<"t", "e", "m", "p", "_">>)

\* the files the last flush created or replaced
ChangedByFlush ==
    {n \in DOMAIN files : n \notin DOMAIN lastCall.before \/ lastCall.before[n] # files[n]}

\* the permanent files the last flush produced out of the frames of track trk_id
ArtifactsOf(trk_id) ==
    {n \in ChangedByFlush : ~IsTempName(n) /\ files[n].trk = trk_id}

\* C1: after close_all, a track whose frame_count / fps is strictly below the
\* minimum track duration has produced no artifact and its temp file is no
\* longer in the output directory.
C1_ShortTrackDiscarded ==
    AfterFlush =>
        \A e \in FlushedSinks :
            BelowMinimum(e) =>
                /\ ArtifactsOf(e.trk_id) = {}
                /\ e.temp_path \notin DOMAIN files

C1_Witness ==
    /\ AfterFlush
    /\ \E e \in FlushedSinks : BelowMinimum(e) /\ e.temp_path \in DOMAIN lastCall.before
    /\ \E e \in FlushedSinks : ~BelowMinimum(e)

\* C2: after close_all, a track that received n frames with n / fps at or
\* above the minimum track duration (equality included) has exactly one
\* permanent artifact, and that artifact holds exactly n frames.
C2_LongTrackFinalized ==
    AfterFlush =>
        \A e \in FlushedSinks :
            ~BelowMinimum(e) =>
                /\ Cardinality(ArtifactsOf(e.trk_id)) = 1
                /\ \A n \in ArtifactsOf(e.trk_id) : files[n].frames = e.frame_count

C2_Witness ==
    /\ AfterFlush
    /\ \E e \in FlushedSinks :
          /\ e.frame_count * 1000 = MIN_TRACK_DURATION_SEC * e.fps
          /\ e.frame_count > 1
          /\ Cardinality(ArtifactsOf(e.trk_id)) = 1
    /\ \E e \in FlushedSinks : e.frame_count * 1000 > MIN_TRACK_DURATION_SEC * e.fps

C4_ArtifactNamedAfterSource ==
    AfterFlush =>
        \A e \in FlushedSinks :
            (e.kept /\ e.stem # NoStem) =>
                \E k \in 1..MaxCounter :
                    e.final_path = e.stem \o CowSeparator \o Format04d(k) \o VIDEO_EXT

\* C5 (as claimed): the resume scan of the output directory recovers exactly
\* the stems of the source videos that have an artifact there.
C5_ResumeRecoversStems ==
    \A stem \in Stems :
        (stem \in ProcessedStems(DOMAIN files))
            <=> (\E n \in DOMAIN files : ~IsTempName(n) /\ files[n].stem = stem)

\* C6 (as claimed): after reset_track_mapping(new_source_stem) the manager
\* has no active track and its sequence counter is zero.
C6_ResetFlushesAndRestarts ==
    lastCall.op \in {"reset_track_mapping", "reset_track_mapping(stem)"} =>
        /\ current_video_writers = <<>>
        /\ global_cow_counter = 0

(***************************************************************************)
(* Properties of the extraction pipeline.                                  *)
(***************************************************************************)
\* process_video has returned from its end-of-video close_all
ProcessVideoReturned == pc \in {"batch", "done"} /\ lastCall.op = "close_all"

\* C7 (as claimed): with the real writer manager process_video completes
\* normally, and a track it forwarded N frames for leaves exactly one N-frame
\* artifact if N / fps >= the minimum duration and none otherwise.
C7_EndToEnd ==
    wiring = "real" =>
        /\ pc # "exit1"
        /\ ProcessVideoReturned =>
               \A t \in DOMAIN forwarded :
                   IF forwarded[t] * 1000 >= MIN_TRACK_DURATION_SEC * video_fps.value
                   THEN /\ Cardinality(ArtifactsOf(t)) = 1
                        /\ \A n \in ArtifactsOf(t) : files[n].frames = forwarded[t]
                   ELSE ArtifactsOf(t) = {}

Abs(x) == IF x >= 0 THEN x ELSE -x

\* C8: the rate process_video hands to write_frame is 30 when the video
\* reported a rate <= 0 or NaN, and otherwise an integer nearest to the
\* reported rate.
C8_FpsNormalized ==
    lastWrite.track_id # 0 =>
        IF InvalidFps(cap_fps) THEN lastWrite.fps.value = 30
        ELSE /\ lastWrite.fps.type = "int"
             /\ Abs(lastWrite.fps.value * 1000 - cap_fps.milli) <= 500

C8_Witness ==
    /\ lastWrite.track_id # 0
    /\ cap_fps = [nan |-> FALSE, milli |-> 240373]
    /\ lastWrite.fps = [value |-> 240, type |-> "int"]

\* C9: the first update call for a track_id since construction or since the
\* last reset() returns the observed box unchanged, also when the track_id
\* was smoothed in an earlier source video.
C9_FirstObservationUnchanged ==
    (lastUpdate.track_id # 0 /\ lastUpdate.first) => lastUpdate.ret = lastUpdate.box

C9_Witness ==
    /\ vidx = 2
    /\ lastUpdate.first
    /\ lastUpdate.track_id \in smoothedBefore
    /\ lastUpdate.ret = lastUpdate.box

\* a coordinate moves from s to s2 towards o without passing it, gets
\* strictly closer unless it is there, and stays when it is there
MovesToward(s, s2, o) ==
    /\ s <= o => (s <= s2 /\ s2 <= o)
    /\ s >= o => (o <= s2 /\ s2 <= s)
    /\ s # o => Abs(s2 - o) < Abs(s - o)

\* C10 (as claimed): for every smoothing factor the configuration allows, an
\* update of a known track moves every stored coordinate monotonically
\* towards the observed one without overshooting, strictly closer each time
\* (so that repeating the observation converges to it), and a stored box
\* equal to the observation stays.
C10_ConvergesMonotonically ==
    (lastUpdate.track_id # 0 /\ lastUpdate.prev # <<>>) =>
        \A i \in 1..4 :
            MovesToward(lastUpdate.prev[i], lastUpdate.new[i],
                        lastUpdate.box[i] * FloatScale)

SampledCounts ==
    [k \in 1..NumSamples(Len(scan_video.frames)) |->
        CowCount(scan_video.frames[(k - 1) * skip_frames + 1])]

MaxOf(counts) ==
    IF counts = <<>> THEN 0
    ELSE CHOOSE m \in {counts[k] : k \in 1..Len(counts)} :
             \A k \in 1..Len(counts) : counts[k] <= m

\* C12: is_single_cow_video returns true if and only if the maximum number
\* of simultaneous detections over all sampled frames of the video is
\* exactly 1.
C12_SingleCowVerdict ==
    (scan_pc = "returned" /\ scan_video.opens) =>
        (scan_result <=> MaxOf(SampledCounts) = 1)

\* the sampled counts [0, 1, 1, 0] are accepted
C12_Witness ==
    /\ scan_pc = "returned"
    /\ SampledCounts = <<0, 1, 1, 0>>
    /\ scan_result

\* C13: once a sampled frame has reported more than one detection the scan
\* has stopped: no later frame was read or handed to the detector, and the
\* video is classified as not single-subject.
C13_ScannerEarlyExit ==
    \A i \in detector_calls :
        CowCount(scan_video.frames[i + 1]) > 1 =>
            /\ \A j \in detector_calls : j <= i
            /\ frame_idx = i
            /\ scan_pc = "returned"
            /\ ~scan_result

\* a scan that stopped at its second sample although two more followed
C13_Witness ==
    /\ scan_pc = "returned"
    /\ detector_calls = {0, skip_frames}
    /\ CowCount(scan_video.frames[skip_frames + 1]) > 1
    /\ NumSamples(Len(scan_video.frames)) = 4

Standardized == standardized # NoCanvas

TargetW == settings.OUTPUT_RESOLUTION[1]
TargetH == settings.OUTPUT_RESOLUTION[2]

\* C14 (as claimed): for every non-empty crop the standardization raises
\* nothing and the frame handed to write_frame is target_h x target_w.
C14_CanvasHasTargetSize ==
    Standardized =>
        /\ standardized.raised = "none"
        /\ standardized.frame.h = TargetH
        /\ standardized.frame.w = TargetW
        /\ DOMAIN standardized.frame.px = Positions(TargetH, TargetW)

\* the positions of the output the crop was placed on
CenteredRegion ==
    {q \in Positions(TargetH, TargetW) :
        /\ (TargetH - cow_crop.h) \div 2 <= q[1]
        /\ q[1] < (TargetH - cow_crop.h) \div 2 + cow_crop.h
        /\ (TargetW - cow_crop.w) \div 2 <= q[2]
        /\ q[2] < (TargetW - cow_crop.w) \div 2 + cow_crop.w}

\* C15 (as claimed): a crop that fits inside the target in both dimensions
\* is placed centered at its original size, and every output pixel outside
\* the centered region has the configured background fill color.
C15_NoUpscaleAndFill ==
    (Standardized /\ cow_crop.w <= TargetW /\ cow_crop.h <= TargetH) =>
        /\ standardized.raised = "none"
        /\ \A q \in CenteredRegion :
               standardized.frame.px[q] =
                   [src |-> "crop", y |-> q[1] - (TargetH - cow_crop.h) \div 2,
                                    x |-> q[2] - (TargetW - cow_crop.w) \div 2]
        /\ \A q \in Positions(TargetH, TargetW) \ CenteredRegion :
               /\ standardized.frame.px[q].src = "zeros"
               /\ ZeroPixel = settings.BACKGROUND_COLOR

\* C16 (as claimed): a crop exceeding the target in either dimension is
\* resized to a width and a height that are both at least 1 and at most the
\* target's, with the limiting dimension equal to the target and the other
\* one the truncation of the proportional size.
C16_DownscaleFits ==
    (Standardized /\ (cow_crop.w > TargetW \/ cow_crop.h > TargetH)) =>
        /\ standardized.scaled
        /\ 1 <= standardized.w /\ standardized.w <= TargetW
        /\ 1 <= standardized.h /\ standardized.h <= TargetH
        /\ IF TargetW * cow_crop.h <= TargetH * cow_crop.w
           THEN /\ standardized.w = TargetW
                /\ standardized.h = (cow_crop.h * TargetW) \div cow_crop.w
           ELSE /\ standardized.h = TargetH
                /\ standardized.w = (cow_crop.w * TargetH) \div cow_crop.h

\* the positions inside the polygon after its vertices were truncated to
\* whole pixels
RasterizedPolygon ==
    FillPoly(AsInt32(mask_segment), mask_frame.h, mask_frame.w)

\* the value of an output pixel whose alpha is one or zero
MaskedValue(cell) == IF cell.alpha = "one" THEN cell.frame ELSE cell.background

\* C17: under the binary policy every output pixel outside the rasterized
\* polygon is the configured fill color and every pixel inside it is the
\* pixel of the source frame.
C17_HardMaskExact ==
    (masked # NoMasked /\ settings.MASK_METHOD = "binary") =>
        /\ masked.out.raised = "none"
        /\ \A q \in Positions(mask_frame.h, mask_frame.w) :
               /\ masked.out.px[q].alpha # "between"
               /\ MaskedValue(masked.out.px[q]) =
                      IF q \in RasterizedPolygon THEN mask_frame.px[q]
                      ELSE settings.BACKGROUND_COLOR

\* the triangle cut out of a frame onto a white background
C17_Witness ==
    /\ masked # NoMasked
    /\ settings.MASK_METHOD = "binary"
    /\ settings.BACKGROUND_COLOR = <<255, 255, 255>>
    /\ Len(mask_segment) = 3
    /\ MaskedValue(masked.out.px[<<0, 0>>]) = mask_frame.px[<<0, 0>>]
    /\ MaskedValue(masked.out.px[<<3, 3>>]) = <<255, 255, 255>>

\* the policy names _apply_mask knows
KnownMaskMethods == {"binary", "soft"}

\* C18 (as claimed): a run configured with an unknown mask policy name, and
\* otherwise validly, does not fail: it starts and processes videos, and the
\* masking falls back to the soft policy with a warning.
C18_UnknownPolicyFallsBack ==
    (/\ run_pc # "none"
     /\ settings.MASK_METHOD \notin KnownMaskMethods
     /\ ValidConfig([settings EXCEPT !.MASK_METHOD = "soft"])) =>
        /\ run_pc # "exit1"
        /\ masked # NoMasked => (masked.policy = "soft" /\ masked.warned)

\* a configuration the specification calls invalid: smoothing factor outside
\* (0, 1], negative minimum duration, non-positive output resolution, or a
\* blur kernel size that is not a positive odd number
InvalidAsSpecified(st) ==
    \/ ~(0 < st.SMOOTHING_ALPHA /\ st.SMOOTHING_ALPHA <= FloatScale)
    \/ st.MIN_TRACK_DURATION_SEC < 0
    \/ \E i \in 1..2 : st.OUTPUT_RESOLUTION[i] <= 0
    \/ \E i \in 1..2 : ~(st.MASK_BLUR_KERNEL_SIZE[i] > 0 /\ st.MASK_BLUR_KERNEL_SIZE[i] % 2 = 1)

\* C19 (as claimed): a run with such a configuration ends at the validation,
\* before any video is opened, and a run that gets past it works with the
\* validated values.
C19_ConfigFailsFast ==
    /\ (run_pc # "none" /\ InvalidAsSpecified(settings)) =>
           run_pc \in {"start", "exit1"}
    /\ run_pc = "processing" => alpha = settings.SMOOTHING_ALPHA

\* close_all or reset_track_mapping() was the last call on the manager
FlushCalled == lastCall.op \in {"close_all", "reset_track_mapping"}

\* the file system refused nothing of what the flush had to do for sink e
Unhindered(e) ==
    /\ e.temp_path \notin os_errors
    /\ e.kept => e.final_path \notin os_errors

\* C20: a flush on a file system that refuses deletes or renames returns
\* normally and leaves no active track; every sink got its own decision by
\* its own duration, and every sink the file system did not hinder was
\* finalized or discarded accordingly.
C20_FlushSurvivesOSError ==
    FlushCalled =>
        /\ lastCall.raised = "none"
        /\ current_video_writers = <<>>
        /\ Len(lastCall.log) = Len(lastCall.sinks)
        /\ \A i \in 1..Len(lastCall.sinks) :
               LET e == lastCall.log[i]
               IN /\ e.trk_id = lastCall.sinks[i].trk_id
                  /\ e.kept <=> ~BelowMinimum(lastCall.sinks[i])
                  /\ Unhindered(e) =>
                         /\ e.temp_path \notin DOMAIN files
                         /\ e.kept =>
                                /\ e.final_path \in DOMAIN files
                                /\ files[e.final_path].trk = e.trk_id
                                /\ files[e.final_path].frames = e.frame_count

\* a flush in which the temp file of the first sink could not be deleted or
\* renamed and a later sink was finalized
C20_Witness ==
    /\ FlushCalled
    /\ Len(lastCall.log) >= 2
    /\ lastCall.log[1].temp_path \in os_errors
    /\ lastCall.log[1].temp_path \in DOMAIN files
    /\ \E i \in 2..Len(lastCall.log) :
          /\ lastCall.log[i].kept
          /\ lastCall.log[i].final_path \in DOMAIN files
          /\ lastCall.log[i].temp_path \notin DOMAIN files

(***************************************************************************)
(* Properties of the batch run.                                            *)
(***************************************************************************)
\* the batch loop is at a video that is not in the skip list
AtUnskippedVideo ==
    /\ pc = "batch"
    /\ vidx <= Len(video_files)
    /\ video_files[vidx] \notin skip_list

\* C21 (as claimed): a batch run completes every video it can open. No step
\* of the run aborts it; at a video outside the skip list process_video
\* either enters its frame loop or, when the video does not open, returns
\* with the writer manager and the smoother as they were and the loop goes
\* on to the next video; the frame loop is left only by the end-of-video
\* flush; the run is done only when every video has been gone through.
C21_BatchCompletes ==
    [][ /\ pc' # "exit1"
        /\ AtUnskippedVideo =>
               \/ pc' = "frames" /\ vidx' = vidx
               \/ /\ pc' = "batch"
                  /\ vidx' = vidx + 1
                  /\ UNCHANGED <<global_cow_counter, current_video_writers, files,
                                 tracks>>
        /\ (pc = "frames" /\ pc' # "frames") =>
               /\ pc' = "batch"
               /\ vidx' = vidx + 1
               /\ wiring = "real" => lastCall'.op = "close_all"
        /\ pc' = "done" => vidx' > Len(video_files)
      ]_vars

\* C22 (as claimed): in process_video the writer-manager reset and the
\* smoother reset are done before the first frame is pulled and the flush
\* after the last one: the resets complete, the frame loop starts with no
\* active sink and no stored box, the manager holds no active sink whenever
\* process_video is not running, and every active sink was opened during the
\* video being processed.
C22_PerVideoOrdering ==
    /\ pc # "exit1"
    /\ (pc = "frames" /\ framesRead = 0) =>
           /\ current_video_writers = <<>>
           /\ tracks = NoTracks
    /\ pc \in {"batch", "done"} => current_video_writers = <<>>
    /\ \A i \in 1..Len(current_video_writers) :
           files[current_video_writers[i].temp_path].stem = source_stem

(***************************************************************************)
(* Properties of the manager's bookkeeping.                                *)
(***************************************************************************)
FlushOps == {"close_all", "reset_track_mapping"}

\* the permanent files of a directory
Permanent(fs) == {n \in DOMAIN fs : ~IsTempName(n)}

\* the permanent files that are in fs2 and were not in fs1, or not with that
\* content
NewPermanent(fs1, fs2) ==
    {n \in Permanent(fs2) : n \notin DOMAIN fs1 \/ fs1[n] # fs2[n]}

\* C23: keep/discard decisions are made only at flush. A write_frame call
\* changes neither the sequence counter nor any permanent file; the counter
\* changes only in a flush; and a permanent file comes into existence only
\* in a flush, as the temp file of a sink that flush kept, moved to its final
\* path.
C23_DecidedOnlyAtFlush ==
    [][ /\ lastCall'.op = "write_frame" =>
               /\ global_cow_counter' = global_cow_counter
               /\ NewPermanent(files, files') = {}
               /\ Permanent(files') = Permanent(files)
        /\ global_cow_counter' # global_cow_counter => lastCall'.op \in FlushOps
        /\ \A n \in NewPermanent(files, files') :
               /\ lastCall'.op \in FlushOps
               /\ \E i \in 1..Len(lastCall'.log) :
                      LET e == lastCall'.log[i]
                      IN /\ e.kept
                         /\ e.final_path = n
                         /\ e.temp_path \in DOMAIN files
                         /\ files'[n] = files[e.temp_path]
                         /\ e.temp_path \notin DOMAIN files'
      ]_vars

\* a track has been written long enough to be kept and nothing has been
\* decided yet: no permanent file, no sequence number given
C23_Witness ==
    /\ lastCall.op = "write_frame"
    /\ \E i \in 1..Len(current_video_writers) :
          /\ ~BelowMinimum(current_video_writers[i])
          /\ current_video_writers[i].frame_count >= 2
    /\ Permanent(files) = {}
    /\ global_cow_counter = 0

\* C24: between public calls of the manager every live sink has
\* frame_count > 0, and frame_count is the number of write_frame calls made
\* for its track id since the sink was opened, that is, since the last
\* flush; every track id written since then has a live sink.
C24_FrameCountCountsWrites ==
    /\ \A i \in 1..Len(current_video_writers) :
           LET t == current_video_writers[i]
           IN /\ t.frame_count > 0
              /\ t.trk_id \in DOMAIN write_calls
              /\ t.frame_count = write_calls[t.trk_id]
    /\ \A k \in DOMAIN write_calls : HasWriter(current_video_writers, k)

\* after an earlier flush, one sink has taken several frames and another one
C24_Witness ==
    /\ global_cow_counter >= 1
    /\ \E i, j \in 1..Len(current_video_writers) :
          /\ current_video_writers[i].frame_count >= 2
          /\ current_video_writers[j].frame_count = 1

\* C25: each track id has at most one live sink; a flushed sink yields at
\* most one artifact; no two sinks finalized by this manager were given the
\* same path, and the file at a path given out still holds the frames of the
\* sink it was given to.
C25_OneSinkOneArtifactOnePath ==
    /\ \A i, j \in 1..Len(current_video_writers) :
           i # j => current_video_writers[i].trk_id # current_video_writers[j].trk_id
    /\ AfterFlush => \A e \in FlushedSinks : Cardinality(ArtifactsOf(e.trk_id)) <= 1
    /\ \A i, j \in 1..Len(assigned) :
           i # j => assigned[i].final_path # assigned[j].final_path
    /\ \A i \in 1..Len(assigned) :
           /\ assigned[i].final_path \in DOMAIN files
           /\ files[assigned[i].final_path].trk = assigned[i].trk_id
           /\ files[assigned[i].final_path].frames = assigned[i].frame_count

\* the manager has finalized the same track id in two flushes, under two
\* paths, and track ids are live again
C25_Witness ==
    /\ \E i, j \in 1..Len(assigned) :
          /\ i # j
          /\ assigned[i].trk_id = assigned[j].trk_id
          /\ assigned[i].frame_count # assigned[j].frame_count
    /\ Len(current_video_writers) >= 1

\* the sinks of the last flush that lasted the minimum duration, in the
\* order in which they were opened
LastedMinimum == SelectSeq(lastCall.sinks, LAMBDA t : ~BelowMinimum(t))

\* C26: discarded tracks consume no sequence number. The manager has given
\* out the numbers 1..k, in that order and without a gap, for the k sinks
\* it finalized, and the files of those names exist; in a flush the sinks
\* that lasted the minimum duration got the last numbers given out, in the
\* order in which they were opened.
C26_KeptNumberedConsecutively ==
    /\ Len(assigned) = global_cow_counter
    /\ \A i \in 1..Len(assigned) :
           /\ assigned[i].final_path = get_next_filename(i)
           /\ get_next_filename(i) \in DOMAIN files
    /\ AfterFlush =>
           /\ Len(LastedMinimum) <= Len(assigned)
           /\ \A j \in 1..Len(LastedMinimum) :
                  LET a == assigned[Len(assigned) - Len(LastedMinimum) + j]
                  IN /\ a.trk_id = LastedMinimum[j].trk_id
                     /\ a.frame_count = LastedMinimum[j].frame_count

\* the flush of the repository's test: a short track 1, then a long track
\* 2, on a fresh manager; track 2 is the only artifact and has number 1
C26_Witness ==
    /\ AfterFlush
    /\ Len(lastCall.sinks) = 2
    /\ lastCall.sinks[1].trk_id = 1 /\ BelowMinimum(lastCall.sinks[1])
    /\ lastCall.sinks[2].trk_id = 2 /\ ~BelowMinimum(lastCall.sinks[2])
    /\ global_cow_counter = 1
    /\ Len(assigned) = 1
    /\ assigned[1].trk_id = 2
    /\ assigned[1].final_path = get_next_filename(1)
    /\ files[get_next_filename(1)].trk = 2

\* C29: flushing is idempotent. A close_all or reset_track_mapping() issued
\* when no frame has been written since the previous flush creates no file,
\* deletes none, changes none, and leaves the sequence counter and the
\* (empty) set of sinks as they are.
C29_FlushIdempotent ==
    [][ (lastCall'.op \in FlushOps /\ write_calls = NoCalls) =>
            /\ files' = files
            /\ global_cow_counter' = global_cow_counter
            /\ current_video_writers' = <<>>
            /\ lastCall'.log = <<>>
            /\ lastCall'.raised = "none"
      ]_vars

\* a reset_track_mapping() that found nothing to flush, with an artifact of
\* an earlier flush in the directory
C29_Witness ==
    /\ lastCall.op = "reset_track_mapping"
    /\ lastCall.raised = "none"
    /\ lastCall.sinks = <<>>
    /\ global_cow_counter >= 1
    /\ files = lastCall.before
    /\ \E i \in 1..Len(assigned) : assigned[i].final_path \in DOMAIN files

(***************************************************************************)
(* Properties of process_video under the tests' harness.                   *)
(***************************************************************************)
\* C27: an empty crop after padding and clamping is skipped for that
\* detection only. No frame is forwarded for a detection whose crop is
\* empty; every other detection clear of the border has its frame forwarded,
\* wherever in the frame's detections the empty one stood; a crop that is
\* forwarded has a positive width and height; and nothing is raised.
C27_EmptyCropSkipped ==
    /\ lastFrame.empty \cap lastFrame.written = {}
    /\ lastFrame.empty \cup lastFrame.written = lastFrame.clear
    /\ lastWrite # NoWrite =>
           /\ 0 <= lastWrite.crop[1] /\ lastWrite.crop[1] < lastWrite.crop[3]
           /\ lastWrite.crop[3] <= FRAME_W
           /\ 0 <= lastWrite.crop[2] /\ lastWrite.crop[2] < lastWrite.crop[4]
           /\ lastWrite.crop[4] <= FRAME_H
    /\ pc # "exit1"

\* in the second frame of a video the first detection had an empty crop and
\* the detection after it was forwarded, as one was in the frame before
C27_Witness ==
    /\ framesRead = 2
    /\ Len(detections) = 2
    /\ detections[1].track_id \in lastFrame.empty
    /\ detections[2].track_id \in lastFrame.written
    /\ forwarded[detections[2].track_id] = 2

\* C28 (as claimed): a one-frame video whose single detection is the box
\* (0, 0, 50, 50) with track id 1 makes process_video call write_frame at
\* least once.
C28_TestBoxForwarded ==
    (framesRead = 1 /\ detections = << [track_id |-> 1, box |-> TestBox] >>) =>
        /\ 1 \in DOMAIN forwarded
        /\ forwarded[1] >= 1

\* the box the smoother stores for track t, if any
StoredBox(tr, t) == IF t \in DOMAIN tr THEN <<tr[t]>> ELSE <<>>

\* the write_frame calls made for track t
Forwarded(fw, t) == IF t \in DOMAIN fw THEN fw[t] ELSE 0

\* the detections of a frame without those within the margin of an edge
WithoutBorder(dets) == SelectSeq(dets, LAMBDA d : ~WithinMargin(d.box))

\* C30: a detection discarded by the border filter changes nothing. A frame
\* leaves the smoother, the write_frame calls made and the last of them as
\* the same frame without its border detections would have left them; and a
\* track id with no detection clear of the border in the frame keeps its
\* stored box and its number of forwarded frames, whatever other track ids
\* the smoother is updated for.
C30_BorderDetectionNoEffect ==
    [][ framesRead' = framesRead + 1 =>
            /\ LET st == ProcessDetections(WithoutBorder(detections'), 1,
                            CHOOSE h \in HexChoices : TRUE,
                            [tracks |-> tracks, lastUpdate |-> lastUpdate,
                             updated |-> updatedSinceReset,
                             m |-> [writers |-> current_video_writers, fs |-> files],
                             calls |-> write_calls,
                             forwarded |-> forwarded, lastWrite |-> lastWrite,
                             empty |-> {}, written |-> {}])
               IN /\ tracks' = st.tracks
                  /\ updatedSinceReset' = st.updated
                  /\ forwarded' = st.forwarded
                  /\ lastWrite' = st.lastWrite
                  /\ current_video_writers' = st.m.writers
                  /\ write_calls' = st.calls
            /\ \A t \in TrackIds :
                   t \notin lastFrame'.clear =>
                       /\ StoredBox(tracks', t) = StoredBox(tracks, t)
                       /\ Forwarded(forwarded', t) = Forwarded(forwarded, t)
      ]_vars

\* a frame in which a track with a stored box was reported at the border
\* while another track was forwarded
C30_Witness ==
    /\ framesRead = 2
    /\ \E t \in lastFrame.atBorder :
          /\ t \in DOMAIN tracks
          /\ t \in DOMAIN forwarded
          /\ t \notin lastFrame.written
    /\ lastFrame.written # {}

\* a crop rectangle inside the frame with a positive width and height
CropInsideFrame(c) ==
    /\ 0 <= c[1] /\ c[1] < c[3] /\ c[3] <= FRAME_W
    /\ 0 <= c[2] /\ c[2] < c[4] /\ c[4] <= FRAME_H

\* detection d of the last frame was forwarded, and its crop rectangle, where
\* it is the one last forwarded, lies inside the frame with a positive size
CroppedInsideFrame(d) ==
    /\ d.track_id \in lastFrame.written
    /\ d.track_id \notin lastFrame.empty
    /\ (lastWrite # NoWrite /\ lastWrite.track_id = d.track_id) =>
           CropInsideFrame(lastWrite.crop)

\* C31 (as claimed): every detection that passes the border filter with a
\* non-degenerate raw box is forwarded with a crop rectangle inside the frame
\* of positive width and height, whatever the padding.
C31_ClearBoxNeverEmpty ==
    \A i \in 1..Len(detections) :
        (~WithinMargin(detections[i].box) /\ NonDegenerate(detections[i].box)) =>
            CroppedInsideFrame(detections[i])

\* C31 (amended): the same for a detection of a track id for which every box
\* that passed the border filter in this video was non-degenerate. The
\* smoothed box is then a weighted mean of boxes at least a pixel wide and
\* high that lie more than the margin inside the frame.
C31_SoundTrackNeverEmpty ==
    \A i \in 1..Len(detections) :
        (/\ ~WithinMargin(detections[i].box)
         /\ NonDegenerate(detections[i].box)
         /\ detections[i].track_id \notin degenerate) =>
            CroppedInsideFrame(detections[i])

\* without padding, a box one pixel wide of a track smoothed for the second
\* time in the video, after a wider box, was forwarded
C31_Witness ==
    /\ settings.CROP_PADDING = 0
    /\ framesRead = 2
    /\ \E i \in 1..Len(detections) :
          /\ detections[i].box = <<10, 10, 11, 60>>
          /\ detections[i].track_id \notin degenerate
          /\ detections[i].track_id \in lastFrame.written
          /\ forwarded[detections[i].track_id] = 2
          /\ lastWrite.track_id = detections[i].track_id
          /\ tracks[detections[i].track_id][3] > 11 * FloatScale

\* the artifacts that the last flush found in the directory and deleted or
\* replaced
ReplacedByFlush ==
    {n \in Permanent(lastCall.before) :
        n \notin DOMAIN files \/ files[n] # lastCall.before[n]}

\* C32 (as claimed): finalizing never deletes or overwrites an artifact an
\* earlier run produced for a different source video. An artifact that a
\* flush of sinks opened for a named source video found in the directory and
\* did not leave as it was has been replaced by an artifact of the same
\* source video.
C32_ForeignArtifactsKept ==
    (AfterFlush /\ \A e \in FlushedSinks : e.stem # NoStem) =>
        \A n \in ReplacedByFlush :
            /\ n \in DOMAIN files
            /\ files[n].stem = lastCall.before[n].stem

====
